---- MODULE Spec2Model ----
(***************************************************************************)
(* A model of the circle data processor (src/app.py, src/validate.py).     *)
(*                                                                         *)
(* The module holds several specifications over one set of variables; each *)
(* specification drives one part of the program and leaves the variables   *)
(* of the other parts at their idle values:                                *)
(*                                                                         *)
(*   Spec      the workbook-creation page (show_excel_creation_page)       *)
(*   SpecCsv   validate_csv_file, one encoding trial per step              *)
(*   SpecFmt   format_for_import followed by create_import_files           *)
(*   SpecUser  the same, on sheets that make create_user_import_data       *)
(*             allocate slugs                                               *)
(*   SpecUserMod  the same, on sheets that make create_modified_user_data  *)
(*             update users                                                *)
(*   SpecChk   check #1, validate_modification_status                      *)
(*   SpecRun   perform_data_validation over the selected checks            *)
(*   SpecImport  the import page (show_import_data_page), one script run   *)
(*             per step                                                    *)
(*   SpecSkip  the import page when the skip-rows input is changed         *)
(*   SpecLog   log_session_state_change and the clear button of the log    *)
(*   SpecUrl   is_url_alive on one URL                                     *)
(*   SpecHours validate_business_hours on one pair of cells                *)
(*   SpecIssue validate_account_issue_date on one cell                     *)
(*   SpecLibHours  validate_business_hours of src/validate.py              *)
(*   SpecEvent event_time of src/validate.py                               *)
(*   SpecWebsite  validate_website_urls on one Web-site column             *)
(*   SpecProhibited  validate_prohibited_changes on one sheet              *)
(*   SpecReorder  format_for_import and create_import_files on sheets      *)
(*             whose rows carry the publication status of the baseline    *)
(*                                                                         *)
(* Table cells are strings.  The empty string stands for a missing cell    *)
(* (NaN); "nan" is the literal text that normalize_value also blanks.      *)
(* Japanese cell values are written in romaji: "shusei" (modify),          *)
(* "sakujo" (delete), "shinki" (new addition), "keisaijun" (display        *)
(* order) are the values of the status column, "maru" is the circle mark.  *)
(***************************************************************************)
EXTENDS Integers, Sequences, FiniteSets, TLC

VARIABLES
    circle_file,        \* creation page: uploaded circle CSV
    facility_file,      \* creation page: uploaded facility CSV
    last_month_file,    \* creation page: uploaded prior-month workbook
    page,               \* creation page: what the last script run did
    csv_buf,            \* validate_csv_file: the bytes read from the upload
    csv_result,         \* validate_csv_file: its outcome
    fmt_in,             \* import creation: main table, baseline, columns
    fmt_out,            \* import creation: formatted table and file map
    chk_in,             \* validation: main table, baseline, selected checks
    chk_out,            \* validation: the error fragments of each row
    session_state,      \* import page: the keys of st.session_state it uses
    import_page,        \* import page: the values of its widgets
    import_view,        \* import page: what the last script run showed
    session_log,        \* the action log kept in the session state
    log_clock           \* the action log: the clock its timestamps read

pageVars == <<circle_file, facility_file, last_month_file, page>>

csvVars == <<csv_buf, csv_result>>

fmtVars == <<fmt_in, fmt_out>>

chkVars == <<chk_in, chk_out>>

importVars == <<session_state, import_page, import_view>>

logVars == <<session_log, log_clock>>

vars == <<pageVars, csvVars, fmtVars, chkVars, importVars, logVars>>

nonPageVars == <<csvVars, fmtVars, chkVars, importVars, logVars>>

nonCsvVars == <<pageVars, fmtVars, chkVars, importVars, logVars>>

nonFmtVars == <<pageVars, csvVars, chkVars, importVars, logVars>>

nonChkVars == <<pageVars, csvVars, fmtVars, importVars, logVars>>

nonImportVars == <<pageVars, csvVars, fmtVars, chkVars, logVars>>

nonLogVars == <<pageVars, csvVars, fmtVars, chkVars, importVars>>

-----------------------------------------------------------------------------
(* Bounds of the model. *)

\* Most data rows in the circle and prior-month tables of the creation page.
MaxTableRows == 2

\* Most data rows in the facility table of the creation page.
MaxFacilityRows == 2

\* Most characters in an uploaded CSV buffer.
MaxCsvLen == 4

\* Most rows of the main sheet handed to format_for_import.
MaxFmtRows == 2

\* Most rows of the main sheet when new user slugs are allocated.
MaxUserRows == 3

\* Most rows of the main sheet when existing users are updated.
MaxModRows == 2

\* Most rows of the main sheet handed to the validation.
MaxChkRows == 2

\* Rows of the main sheet when the engine runs with raising checks.
MaxRunRows == 2

\* Calls of log_session_state_change in one session.
MaxLogCalls == 55

\* Longest issue-date cell spelled out of DateChars.
MaxDateLen == 4

\* Most rows of the Web-site column handed to validate_website_urls.
MaxUrlRows == 3

\* Most rows of the sheet handed to validate_prohibited_changes.
MaxProhibitedRows == 2

-----------------------------------------------------------------------------
(* Shared helpers. *)

Range(s) == {s[i] : i \in 1..Len(s)}

SeqsUpTo(S, n) == UNION {[1..k -> S] : k \in 0..n}

NonEmptySeqsUpTo(S, n) == UNION {[1..k -> S] : k \in 1..n}

\* normalize_value: a missing cell and the texts nan / None / <NA> become
\* the empty string; anything else is kept (stripped).
BlankTexts == {"nan", "None", "<NA>"}

normalize_value(raw_value) ==
    IF raw_value = "" \/ raw_value \in BlankTexts THEN "" ELSE raw_value

-----------------------------------------------------------------------------
(* The workbook-creation page. *)

\* Slug cells an uploaded table may hold; "" is a missing cell.
SlugCells == {"A", "B", ""}

\* Facility-name cells; "" is a missing cell.
FacilityCells == {"F1", ""}

NoFile == [kind |-> "none", rows |-> <<>>]

\* An upload the reader rejects (undecodable, empty, no columns).
BadFile == [kind |-> "bad", rows |-> <<>>]

OkFile(rows) == [kind |-> "ok", rows |-> rows]

SlugFiles ==
    {NoFile, BadFile} \cup {OkFile(r) : r \in NonEmptySeqsUpTo(SlugCells, MaxTableRows)}

FacilityFiles ==
    {NoFile, BadFile} \cup {OkFile(r) : r \in NonEmptySeqsUpTo(FacilityCells, MaxFacilityRows)}

\* A local of the page script: bound to a table, or never assigned.
Unbound == [bound |-> FALSE, rows |-> <<>>]

Bound(rows) == [bound |-> TRUE, rows |-> rows]

\* Series.duplicated(): the values of the rows that repeat an earlier row.
\* Missing cells repeat each other.
duplicated(col) ==
    {col[i] : i \in {k \in 1..Len(col) : \E j \in 1..(k - 1) : col[j] = col[k]}}

\* set(col.dropna().astype(str)) without blank and sentinel texts.
slug_set(col) == {s \in Range(col) : s # "" /\ s \notin BlankTexts}

NoReport ==
    [circle_duplicates |-> {}, last_month_duplicates |-> {},
     only_in_circle |-> {}, only_in_last_month |-> {}]

\* A slip of check_data_consistency: the baseline-only slugs are reported
\* but do not stop the run.
check_data_consistency_one_sided(circle_data, last_month_data) ==
    LET report ==
            [circle_duplicates     |-> duplicated(circle_data),
             last_month_duplicates |-> duplicated(last_month_data),
             only_in_circle        |-> slug_set(circle_data) \ slug_set(last_month_data),
             only_in_last_month    |-> slug_set(last_month_data) \ slug_set(circle_data)]
    IN  [stop   |-> [report EXCEPT !.only_in_last_month = {}] # NoReport,
         report |-> report]

\* check_data_consistency: the itemized report, and whether st.stop() is
\* reached.  Both tables carry the two required columns here.
check_data_consistency(circle_data, last_month_data) ==
    LET report ==
            [circle_duplicates     |-> duplicated(circle_data),
             last_month_duplicates |-> duplicated(last_month_data),
             only_in_circle        |-> slug_set(circle_data) \ slug_set(last_month_data),
             only_in_last_month    |-> slug_set(last_month_data) \ slug_set(circle_data)]
    IN  [stop |-> report # NoReport, report |-> report]

\* validate_facility_data: the CSV row numbers (header is row 1) it would
\* list, for duplicated names (blank ones included) or else blank names.
validate_facility_data(names) ==
    LET dup   == {i \in 1..Len(names) :
                     \E j \in 1..Len(names) : j # i /\ names[j] = names[i]}
        blank == {i \in 1..Len(names) : names[i] = ""}
        bad   == IF dup # {} THEN dup ELSE blank
    IN  [ok |-> bad = {}, csv_rows |-> {i + 1 : i \in bad}]

\* validate_facility_csv_file: decode and parse only; the parsed table is
\* returned as it is.
validate_facility_csv_file(file) ==
    IF file.kind = "ok" THEN Bound(file.rows) ELSE Unbound

\* validate_csv_file as the page sees it: a table or a ValueError.
load_csv(file) ==
    IF file.kind = "ok" THEN Bound(file.rows) ELSE Unbound

\* validate_excel_file as the page sees it.
validate_excel_file(file) ==
    IF file.kind = "ok" THEN Bound(file.rows) ELSE Unbound

\* add_location_column: mapping through a facility index that holds a name
\* twice raises; the page reports it and no workbook is built.
add_location_column_ok(facility_names) ==
    \A i, j \in 1..Len(facility_names) :
        facility_names[i] = facility_names[j] => i = j

\* process_files: the workbook, or the failure of its location step.
process_files(circle_data, facility_data, last_month_data) ==
    IF add_location_column_ok(facility_data.rows) THEN "workbook" ELSE "none"

\* One run of show_excel_creation_page over the three upload widgets;
\* clicked says whether this run was triggered by the process button.
show_excel_creation_page(cf, ff, lf, clicked) ==
    LET circle_data     == load_csv(cf)
        facility_data   == validate_facility_csv_file(ff)
        last_month_data == validate_excel_file(lf)
        checked         == last_month_data.bound /\ circle_data.bound
        gate            == IF checked
                           THEN check_data_consistency(circle_data.rows,
                                                       last_month_data.rows)
                           ELSE [stop |-> FALSE, report |-> NoReport]
        all_data_ready  == circle_data.bound /\ facility_data.bound
                           /\ last_month_data.bound
        offered         == ~gate.stop /\ all_data_ready
        invoked         == offered /\ clicked
    IN  [circle_data      |-> circle_data,
         facility_data    |-> facility_data,
         last_month_data  |-> last_month_data,
         consistency_run  |-> checked,
         stopped          |-> gate.stop,
         report           |-> gate.report,
         button_offered   |-> offered,
         process_invoked  |-> invoked,
         output           |-> IF invoked
                              THEN process_files(circle_data, facility_data,
                                                 last_month_data)
                              ELSE "none"]

PageInit ==
    /\ circle_file = NoFile
    /\ facility_file = NoFile
    /\ last_month_file = NoFile
    /\ page = show_excel_creation_page(NoFile, NoFile, NoFile, FALSE)

\* The operator puts a file into (or clears) the circle uploader.
UploadCircle ==
    \E f \in SlugFiles :
        /\ circle_file' = f
        /\ page' = show_excel_creation_page(f, facility_file, last_month_file, FALSE)
        /\ UNCHANGED <<facility_file, last_month_file, nonPageVars>>

UploadFacility ==
    \E f \in FacilityFiles :
        /\ facility_file' = f
        /\ page' = show_excel_creation_page(circle_file, f, last_month_file, FALSE)
        /\ UNCHANGED <<circle_file, last_month_file, nonPageVars>>

UploadLastMonth ==
    \E f \in SlugFiles :
        /\ last_month_file' = f
        /\ page' = show_excel_creation_page(circle_file, facility_file, f, FALSE)
        /\ UNCHANGED <<circle_file, facility_file, nonPageVars>>

\* The process button exists only in a run that rendered it.
ClickProcess ==
    /\ page.button_offered
    /\ page' = show_excel_creation_page(circle_file, facility_file,
                                        last_month_file, TRUE)
    /\ UNCHANGED <<circle_file, facility_file, last_month_file, nonPageVars>>

Next ==
    \/ UploadCircle
    \/ UploadFacility
    \/ UploadLastMonth
    \/ ClickProcess

-----------------------------------------------------------------------------
(* validate_csv_file: encoding resolution. *)

(* A buffer is a sequence of characters, each standing for its bytes:      *)
(*   "x"   an ASCII character other than white space                       *)
(*   "sp"  an ASCII blank                                                  *)
(*   "nl"  a line break                                                    *)
(*   "U"   a multi-byte UTF-8 character                                    *)
(*   "J"   a double-byte Shift-JIS character, both bytes above 0x7F        *)
(*   "E"   a double-byte EUC-JP character (its bytes also decode, as       *)
(*         other characters, under Shift-JIS and CP932)                    *)
(*   "C"   a CP932 extension character that Shift-JIS does not define      *)
CsvChars == {"x", "sp", "nl", "U", "J", "E", "C"}

encodings == <<"utf-8-sig", "utf-8", "shift-jis", "cp932", "euc-jp">>

\* The first bytes of the buffer that are decoded as a probe.
SampleBytes == 1000

\* Whether the bytes of character c are a valid sequence of encoding.
Decodable(c, encoding) ==
    CASE c \in {"x", "sp", "nl"} -> TRUE
      [] c = "U" -> encoding \in {"utf-8-sig", "utf-8"}
      [] c = "J" -> encoding \in {"shift-jis", "cp932"}
      [] c = "E" -> encoding \in {"shift-jis", "cp932", "euc-jp"}
      [] c = "C" -> encoding = "cp932"
      [] OTHER -> FALSE

\* bytes.decode(encoding): the text, or a UnicodeDecodeError.
decode_strict(content, encoding) ==
    IF \A i \in 1..Len(content) : Decodable(content[i], encoding)
    THEN [ok |-> TRUE, text |-> content]
    ELSE [ok |-> FALSE, text |-> <<>>]

\* bytes.decode(encoding, errors='ignore'): undecodable bytes are dropped.
decode_ignore(content, encoding) ==
    LET keep(c) == Decodable(c, encoding) IN SelectSeq(content, keep)

\* The try / except UnicodeDecodeError pair around each decode: strict
\* first, then lossy, which cannot fail.
decode_with_fallback(content, encoding) ==
    LET strict == decode_strict(content, encoding)
    IN  IF strict.ok THEN strict
        ELSE [ok |-> TRUE, text |-> decode_ignore(content, encoding)]

\* str.strip() leaves nothing.
IsBlankText(text) == \A i \in 1..Len(text) : text[i] \in {"sp", "nl"}

\* The lines pd.read_csv keeps: a line counts when it holds a character
\* other than a blank.  Counted by the first such character of each line.
csv_line_count(text) ==
    Cardinality({i \in 1..Len(text) :
        /\ text[i] \notin {"sp", "nl"}
        /\ \A j \in 1..(i - 1) :
              text[j] \notin {"sp", "nl"} =>
                  \E k \in (j + 1)..(i - 1) : text[k] = "nl"})

\* One pass of the loop body for one encoding: "accept", "continue" or
\* "empty" (pd.errors.EmptyDataError, re-raised as the file-is-empty error).
try_encoding(file_content, encoding) ==
    LET sample_size == IF Len(file_content) < SampleBytes
                       THEN Len(file_content) ELSE SampleBytes
        sample == decode_with_fallback(SubSeq(file_content, 1, sample_size), encoding)
        decoded_content == decode_with_fallback(file_content, encoding)
        lines == csv_line_count(decoded_content.text)
    IN  IF ~sample.ok THEN "continue"
        ELSE IF IsBlankText(sample.text) THEN "continue"
        ELSE IF lines = 0 THEN "empty"
        ELSE IF lines = 1 THEN "continue"      \* df.empty: a header, no row
        ELSE "accept"

RECURSIVE try_from(_, _)
\* The for loop from the k-th encoding on.
try_from(file_content, k) ==
    IF k > Len(encodings)
    THEN [status |-> "error", error |-> "encoding not recognized", encoding |-> "none"]
    ELSE LET r == try_encoding(file_content, encodings[k])
         IN  CASE r = "accept" ->
                    [status |-> "ok", error |-> "none", encoding |-> encodings[k]]
               [] r = "empty" ->
                    [status |-> "error", error |-> "file is empty", encoding |-> "none"]
               [] OTHER -> try_from(file_content, k + 1)

validate_csv_file(file_content) == try_from(file_content, 1)

\* csv_result before the call returns.
CsvNoResult(status) == [status |-> status, error |-> "none", encoding |-> "none"]

CsvInit ==
    /\ csv_buf \in SeqsUpTo(CsvChars, MaxCsvLen)
    /\ csv_result = CsvNoResult("pending")

\* The call validate_csv_file(csv_file).
ValidateCsv ==
    /\ csv_result.status = "pending"
    /\ csv_result' = validate_csv_file(csv_buf)
    /\ UNCHANGED <<csv_buf, nonCsvVars>>

NextCsv == ValidateCsv

-----------------------------------------------------------------------------
(* format_for_import and create_import_files. *)

(* A main-sheet row holds the columns the functions read:                  *)
(*   slug    the circle's slug       status  the status column             *)
(*   name    the circle name (a column outside status and account columns) *)
(*   hp      the HP-publication flag acct    the three account columns     *)
(*   rep     the slug of the representative user (daihyosha)               *)
(* A baseline row holds slug, name, hp, acct and order (junban).           *)
(* A user row holds slug, name and email.  User slugs, and the rep cell    *)
(* that refers to them, are sequences of one-character strings, so that    *)
(* the numeric suffix is parsed and formatted digit by digit.              *)

StatusCells == {"", "shusei", "sakujo", "shinki", "keisaijun"}

\* issued flag, issue date, issue email
account_columns == 1..3

BaseAcct == <<"", "", "">>

AcctCells == {BaseAcct, <<"maru", "R6,4", "e1">>, <<"", "", "e1">>}

MainRow(slug, status, name, hp, acct) ==
    [slug |-> slug, status |-> status, name |-> name, hp |-> hp, acct |-> acct,
     rep |-> <<>>]

\* The rows of the main sheet: an unedited copy of baseline row A but for
\* the status and HP cells; a shusei row of A with edits in the name or the
\* account cells; rows of slug B or without slug under every status.
FmtRows ==
    {MainRow("A", st, "n", hp, BaseAcct) : st \in StatusCells, hp \in {"", "maru"}}
    \cup {MainRow("A", "shusei", nm, "maru", ac) : nm \in {"n", "m"}, ac \in AcctCells}
    \cup {MainRow(sl, st, "n", "maru", BaseAcct) : sl \in {"B", ""}, st \in StatusCells}

BaseRow(slug, order) ==
    [slug |-> slug, name |-> "n", hp |-> "maru", acct |-> BaseAcct, order |-> order]

\* junban cells of the baseline as normalize_value renders them.
BaseOrders == {"1", "2", ""}

\* The original sheet: row A alone, or rows A and B.
Baselines ==
    {<<BaseRow("A", a)>> : a \in BaseOrders}
    \cup {<<BaseRow("A", a), BaseRow("B", b)>> : a \in BaseOrders, b \in BaseOrders}

\* str(idx + 1)
PosText == <<"1", "2", "3", "4", "5">>

\* The 0/1 rewrite of a boolean-style column.
binary_value(raw_value) ==
    LET value == normalize_value(raw_value)
    IN  IF value = "" \/ value = "0" THEN "0"
        ELSE IF value = "maru" \/ value = "1" THEN "1"
        ELSE "0"

\* A slip of derive_status: the HP flag is consulted before the status.
derive_status_hp_first(status_value, hp_publish) ==
    IF hp_publish = "1" THEN "publish"
    ELSE IF hp_publish = "0" THEN "private"
    ELSE IF status_value = "sakujo" THEN "private"
    ELSE "publish"

\* The if / elif chain that sets the publish status; hp_publish is "absent" when the
\* sheet has no HP-keisai-ka column.
derive_status(status_value, hp_publish) ==
    IF status_value = "sakujo" THEN "private"
    ELSE IF status_value # "sakujo" /\ status_value = "" THEN "publish"
    ELSE IF hp_publish = "1" THEN "publish"
    ELSE IF hp_publish = "0" THEN "private"
    ELSE "publish"

\* original_order_dict: the junban of the last baseline row with that slug.
HasOriginalOrder(original_data, slug) ==
    \E k \in 1..Len(original_data) : normalize_value(original_data[k].slug) = slug

original_order(original_data, slug) ==
    LET ks == {k \in 1..Len(original_data) :
                  normalize_value(original_data[k].slug) = slug}
        last == CHOOSE k \in ks : \A j \in ks : j <= k
    IN  normalize_value(original_data[last].order)

\* A slip of reorder_status: a row already marked shusei is overwritten too.
reorder_status_overwrite(row, pos, original_data) ==
    LET slug == normalize_value(row.slug)
    IN  IF /\ slug # ""
           /\ HasOriginalOrder(original_data, slug)
           /\ PosText[pos] # original_order(original_data, slug)
        THEN "keisaijun"
        ELSE row.status

\* The second loop of format_for_import: the status cell of the row
\* that now stands at position pos.
reorder_status(row, pos, original_data) ==
    LET slug           == normalize_value(row.slug)
        current_status == normalize_value(row.status)
    IN  IF current_status \in {"shusei", "sakujo", "shinki"} THEN row.status
        ELSE IF /\ slug # ""
                /\ HasOriginalOrder(original_data, slug)
                /\ PosText[pos] # original_order(original_data, slug)
        THEN "keisaijun"
        ELSE row.status

\* format_for_import; hp_column says whether the sheet has HP-keisai-ka.
format_for_import(main_data, original_data, hp_column) ==
    [i \in 1..Len(main_data) |->
        LET row == main_data[i]
            hp  == IF hp_column THEN binary_value(row.hp) ELSE "absent"
        IN  [slug   |-> row.slug,
             status |-> reorder_status(row, i, original_data),
             name   |-> row.name,
             hp     |-> hp,
             acct   |-> row.acct,
             rep    |-> row.rep,
             st     |-> derive_status(normalize_value(row.status), hp),
             order  |-> i]]

\* original_data[original_data['slug'] == slug] for slug = str(cell):
\* a missing cell reads "nan" and matches no baseline row.
original_rows(original_data, slug_cell) ==
    LET slug == IF slug_cell = "" THEN "nan" ELSE slug_cell
    IN  SelectSeq(original_data, LAMBDA r : r.slug = slug)

\* The loop over check_columns, the columns of the main row other than the
\* status and account columns that the baseline has too: slug, name, the
\* HP flag if the sheet has it, and junban if the main row has it.
check_columns_differ(main_row, original_row, hp_column) ==
    \/ normalize_value(main_row.slug) # normalize_value(original_row.slug)
    \/ normalize_value(main_row.name) # normalize_value(original_row.name)
    \/ /\ hp_column
       /\ normalize_value(main_row.hp) # normalize_value(original_row.hp)
    \/ /\ "order" \in DOMAIN main_row
       /\ normalize_value(main_row.order) # normalize_value(original_row.order)

\* A slip of is_only_account_related_change: nothing is account-only.
never_account_only(main_row, original_data, hp_column) == FALSE

\* is_only_account_related_change
is_only_account_related_change(main_row, original_data, hp_column) ==
    LET found == original_rows(original_data, main_row.slug)
    IN  IF found = <<>> THEN FALSE
        ELSE LET original_row == found[1]
                 has_non_account_change ==
                     check_columns_differ(main_row, original_row, hp_column)
                 has_account_change ==
                     \E c \in account_columns :
                         normalize_value(main_row.acct[c])
                             # normalize_value(original_row.acct[c])
             IN  has_account_change /\ ~has_non_account_change

\* The row numbers of 1..n that are in S, in row order: a boolean-mask
\* selection keeps the order of the rows.
Indices(n, S) ==
    LET all == [i \in 1..n |-> i] IN SelectSeq(all, LAMBDA i : i \in S)

\* A slip of new_circle_rows: keisaijun rows are taken as new too.
new_circle_rows_wide(formatted_data) ==
    Indices(Len(formatted_data),
            {i \in 1..Len(formatted_data) :
                formatted_data[i].status \in {"shinki", "keisaijun"}})

\* formatted_data[formatted_data[status column] == 'shinki']
new_circle_rows(formatted_data) ==
    Indices(Len(formatted_data),
            {i \in 1..Len(formatted_data) : formatted_data[i].status = "shinki"})

\* candidate_circles without the shusei rows that are account-only.
modified_circle_rows(formatted_data, original_data, main_data, hp_column) ==
    Indices(Len(formatted_data),
            {i \in 1..Len(formatted_data) :
                /\ formatted_data[i].status \in {"shusei", "sakujo", "keisaijun"}
                /\ ~(/\ normalize_value(formatted_data[i].status) = "shusei"
                     /\ is_only_account_related_change(main_data[i], original_data,
                                                       hp_column))})

-----------------------------------------------------------------------------
(* create_user_import_data and create_modified_user_data. *)

DigitChars == <<"0", "1", "2", "3", "4", "5", "6", "7", "8", "9">>

\* str.isdigit on one character
IsDigit(c) == \E d \in 1..Len(DigitChars) : DigitChars[d] = c

DigitValue(c) == (CHOOSE d \in 1..Len(DigitChars) : DigitChars[d] = c) - 1

\* int(slug[2:]) on a string of digits
RECURSIVE to_int(_)
to_int(ds) ==
    IF ds = <<>> THEN 0
    ELSE 10 * to_int(SubSeq(ds, 1, Len(ds) - 1)) + DigitValue(ds[Len(ds)])

RECURSIVE digits_of(_)
digits_of(n) ==
    IF n < 10 THEN <<DigitChars[n + 1]>>
    ELSE Append(digits_of(n \div 10), DigitChars[(n % 10) + 1])

RECURSIVE zero_pad(_, _)
zero_pad(ds, width) ==
    IF Len(ds) >= width THEN ds ELSE zero_pad(<<"0">> \o ds, width)

\* f"cs{next_number:04d}"
format_slug(next_number) == <<"c", "s">> \o zero_pad(digits_of(next_number), 4)

\* normalize_value on a slug written as characters.
normalize_slug(raw_value) ==
    IF raw_value = <<>> \/ raw_value = <<"n", "a", "n">> THEN <<>> ELSE raw_value

\* slug.startswith('cs') and slug[2:].isdigit()
is_cs_slug(slug) ==
    /\ Len(slug) > 2
    /\ slug[1] = "c"
    /\ slug[2] = "s"
    /\ \A i \in 3..Len(slug) : IsDigit(slug[i])

suffix_number(slug) == to_int(SubSeq(slug, 3, Len(slug)))

\* A slip of cs_numbers: the reserved cs9999 is counted as well.
cs_numbers_with_reserved(user_data) ==
    {n \in {suffix_number(user_data[i].slug) :
                i \in {j \in 1..Len(user_data) : is_cs_slug(user_data[j].slug)}} :
        1 <= n /\ n <= 9999}

\* The suffixes of the existing slugs that lie in 1..9998.
cs_numbers(user_data) ==
    {n \in {suffix_number(user_data[i].slug) :
                i \in {j \in 1..Len(user_data) : is_cs_slug(user_data[j].slug)}} :
        1 <= n /\ n <= 9998}

\* max(cs_numbers) + 1 if cs_numbers else 1
first_number(user_data) ==
    LET numbers == cs_numbers(user_data)
    IN  IF numbers = {} THEN 1
        ELSE (CHOOSE m \in numbers : \A n \in numbers : n <= m) + 1

is_account_issued(value) == normalize_value(value) = "maru"

has_account_status_changed(row, original_data) ==
    LET main_slug    == normalize_value(row.slug)
        original_row == SelectSeq(original_data, LAMBDA r : r.slug = main_slug)
    IN  /\ main_slug # ""
        /\ original_row # <<>>
        /\ is_account_issued(row.acct[1]) # is_account_issued(original_row[1].acct[1])

\* Row numbers of new_accounts: condition1 & (condition2 | condition3).
new_accounts(formatted_data, original_data) ==
    Indices(Len(formatted_data),
            {i \in 1..Len(formatted_data) :
                LET row == formatted_data[i]
                IN  /\ is_account_issued(row.acct[1])
                    /\ normalize_value(row.acct[3]) # ""
                    /\ \/ normalize_value(row.status) = "shinki"
                       \/ has_account_status_changed(row, original_data)})

\* user_data[(email == new_email) & (slug != representative_slug)]
other_users_with_same_email(user_data, new_email, representative_slug) ==
    SelectSeq(user_data,
              LAMBDA u : u.email = new_email /\ u.slug # representative_slug)

NoUpdate == [kind |-> "none"]

\* A slip of modified_user: the update is emitted whoever holds the email.
modified_user_unchecked(main_row, original_data, user_data) ==
    LET main_slug     == normalize_value(main_row.slug)
        original_row  == SelectSeq(original_data, LAMBDA r : r.slug = main_slug)
        rep           == normalize_slug(main_row.rep)
        matching_user == SelectSeq(user_data, LAMBDA u : u.slug = rep)
    IN  IF \/ main_slug = ""
           \/ original_row = <<>>
           \/ normalize_value(main_row.acct[3]) = normalize_value(original_row[1].acct[3])
           \/ rep = <<>>
           \/ matching_user = <<>>
        THEN NoUpdate
        ELSE [kind |-> "update",
              user |-> [name  |-> normalize_value(main_row.name),
                        slug  |-> rep,
                        email |-> normalize_value(main_row.acct[3])]]

\* What create_modified_user_data does with one row of the main data:
\* nothing, a recorded email conflict, or an updated user row.
modified_user(main_row, original_data, user_data) ==
    LET main_slug    == normalize_value(main_row.slug)
        original_row == SelectSeq(original_data, LAMBDA r : r.slug = main_slug)
    IN  IF main_slug = "" \/ original_row = <<>> THEN NoUpdate
        ELSE
        LET main_email     == normalize_value(main_row.acct[3])
            original_email == normalize_value(original_row[1].acct[3])
            representative_slug == normalize_slug(main_row.rep)
            matching_user  == SelectSeq(user_data,
                                        LAMBDA u : u.slug = representative_slug)
        IN  IF \/ main_email = original_email
               \/ representative_slug = <<>>
               \/ matching_user = <<>>
            THEN NoUpdate
            ELSE
            LET user_row      == matching_user[1]
                new_name      == normalize_value(main_row.name)
                new_email     == main_email
                current_name  == normalize_value(user_row.name)
                current_email == normalize_value(user_row.email)
                name_changed  == new_name # current_name
                email_changed == new_email # current_email
            IN  IF ~(name_changed \/ email_changed) THEN NoUpdate
                ELSE IF /\ email_changed
                        /\ new_email # ""
                        /\ other_users_with_same_email(user_data, new_email,
                                                       representative_slug) # <<>>
                THEN [kind |-> "conflict",
                      user |-> [name  |-> new_name,
                                slug  |-> representative_slug,
                                email |-> new_email]]
                ELSE [kind |-> "update",
                      user |-> [name  |-> IF new_name # "" THEN new_name
                                          ELSE current_name,
                                slug  |-> representative_slug,
                                email |-> IF new_email # "" THEN new_email
                                          ELSE current_email]]

\* create_modified_user_data: the updated user rows, the row numbers they
\* come from (modified_row_indices, parallel to the rows) and the rows
\* whose update was skipped for an email conflict.
create_modified_user_data(main_data, original_data, user_data) ==
    LET outcome(i) == modified_user(main_data[i], original_data, user_data)
        updated    == Indices(Len(main_data),
                              {i \in 1..Len(main_data) : outcome(i).kind = "update"})
        conflicts  == Indices(Len(main_data),
                              {i \in 1..Len(main_data) : outcome(i).kind = "conflict"})
    IN  [modified_users_df         |-> [k \in 1..Len(updated) |-> outcome(updated[k]).user],
         modified_row_indices      |-> updated,
         user_modification_errors  |-> conflicts]

\* What the allocation loop does with one candidate row: "missing" and
\* "duplicate" are the two kinds of user_creation_errors, "issued" is an
\* entry of already_issued_users, "create" is a new user.
candidate_outcome(row, user_data, batch_emails) ==
    LET circle_name         == normalize_value(row.name)
        email               == normalize_value(row.acct[3])
        modification_status == normalize_value(row.status)
        existing_emails     == {user_data[j].email : j \in 1..Len(user_data)}
    IN  IF circle_name = "" \/ email = "" THEN "missing"
        ELSE IF modification_status = "shinki"
        THEN IF email \in existing_emails \/ email \in batch_emails
             THEN "duplicate"
             ELSE "create"
        ELSE
        LET slug                == normalize_value(row.slug)
            representative_slug == normalize_slug(row.rep)
            existing_user       == SelectSeq(user_data,
                                             LAMBDA u : u.slug = representative_slug)
        IN  IF /\ slug # ""
               /\ representative_slug # <<>>
               /\ existing_user # <<>>
               /\ circle_name = normalize_value(existing_user[1].name)
               /\ email = normalize_value(existing_user[1].email)
            THEN "issued"
            ELSE "create"

NoAllocation ==
    [new_users |-> <<>>, new_rows |-> <<>>, user_creation_errors |-> <<>>,
     already_issued_users |-> <<>>]

\* The loop over filtered_new_accounts, from candidate number k on.
RECURSIVE allocate(_, _, _, _, _, _, _)
allocate(candidates, k, formatted_data, user_data, next_number, batch_emails, acc) ==
    IF k > Len(candidates) THEN acc
    ELSE
    LET idx     == candidates[k]
        row     == formatted_data[idx]
        outcome == candidate_outcome(row, user_data, batch_emails)
        email   == normalize_value(row.acct[3])
    IN  IF outcome = "create"
        THEN allocate(candidates, k + 1, formatted_data, user_data,
                      next_number + 1,
                      IF normalize_value(row.status) = "shinki"
                      THEN batch_emails \cup {email} ELSE batch_emails,
                      [acc EXCEPT
                          !.new_users = Append(@, [name  |-> normalize_value(row.name),
                                                   slug  |-> format_slug(next_number),
                                                   email |-> email]),
                          !.new_rows = Append(@, idx)])
        ELSE IF outcome = "issued"
        THEN allocate(candidates, k + 1, formatted_data, user_data, next_number,
                      batch_emails,
                      [acc EXCEPT !.already_issued_users = Append(@, idx)])
        ELSE allocate(candidates, k + 1, formatted_data, user_data, next_number,
                      batch_emails,
                      [acc EXCEPT !.user_creation_errors =
                                      Append(@, [row |-> idx, kind |-> outcome])])

\* create_user_import_data: the modification sub-flow runs first, its rows
\* leave the pool of new accounts, the rest is allocated slugs in row
\* order, and the new rows are followed by the updated ones.
create_user_import_data(formatted_data, original_data, user_data) ==
    LET modified == create_modified_user_data(formatted_data, original_data, user_data)
        pool     == new_accounts(formatted_data, original_data)
        filtered_new_accounts ==
            SelectSeq(pool, LAMBDA i : i \notin Range(modified.modified_row_indices))
        created  == IF filtered_new_accounts = <<>> THEN NoAllocation
                    ELSE allocate(filtered_new_accounts, 1, formatted_data, user_data,
                                  first_number(user_data), {}, NoAllocation)
    IN  [new_accounts             |-> pool,
         filtered_new_accounts    |-> filtered_new_accounts,
         new_users                |-> created.new_users,
         new_rows                 |-> created.new_rows,
         user_creation_errors     |-> created.user_creation_errors,
         already_issued_users     |-> created.already_issued_users,
         modified_users_df        |-> modified.modified_users_df,
         modified_row_indices     |-> modified.modified_row_indices,
         user_modification_errors |-> modified.user_modification_errors,
         user_import_df           |-> created.new_users \o modified.modified_users_df]

NoUsers ==
    [new_accounts |-> <<>>, filtered_new_accounts |-> <<>>, new_users |-> <<>>,
     new_rows |-> <<>>, user_creation_errors |-> <<>>, already_issued_users |-> <<>>,
     modified_users_df |-> <<>>, modified_row_indices |-> <<>>,
     user_modification_errors |-> <<>>, user_import_df |-> <<>>]

-----------------------------------------------------------------------------
(* create_import_files and the callback that runs it. *)

\* create_import_files: the file map (a file with no row is left out) and
\* what create_user_import_data left in the session state.
create_import_files(formatted_data, original_data, user_data, main_data, hp_column) ==
    LET new_circles      == new_circle_rows(formatted_data)
        modified_circles == modified_circle_rows(formatted_data, original_data,
                                                 main_data, hp_column)
        users            == create_user_import_data(formatted_data, original_data,
                                                    user_data)
    IN  [names    |-> (IF new_circles # <<>> THEN {"new"} ELSE {})
                      \cup (IF modified_circles # <<>> THEN {"modified"} ELSE {})
                      \cup (IF users.user_import_df # <<>> THEN {"user"} ELSE {}),
         new      |-> new_circles,
         modified |-> modified_circles,
         users    |-> users]

NoFiles == [names |-> {}, new |-> <<>>, modified |-> <<>>, users |-> NoUsers]

User(slug, name, email) == [slug |-> slug, name |-> name, email |-> email]

\* The user table that accompanies the main sheets of FmtRows.
FmtUsers == <<User(<<"c", "s", "0", "0", "0", "1">>, "n", "e0")>>

FmtInit ==
    /\ fmt_in \in [main_data     : NonEmptySeqsUpTo(FmtRows, MaxFmtRows),
                   original_data : Baselines,
                   hp_column     : BOOLEAN,
                   user_data     : {FmtUsers}]
    /\ fmt_out = [status |-> "pending", formatted_data |-> <<>>, import_files |-> NoFiles]

Slug0001 == <<"c", "s", "0", "0", "0", "1">>

Slug0003 == <<"c", "s", "0", "0", "0", "3">>

Slug9998 == <<"c", "s", "9", "9", "9", "8">>

Slug9999 == <<"c", "s", "9", "9", "9", "9">>

\* The elements of seq at the positions in S, in order.
Pick(seq, S) ==
    LET picked == Indices(Len(seq), S)
    IN  [k \in 1..Len(picked) |-> seq[picked[k]]]

UserTables(pool) == {Pick(pool, S) : S \in SUBSET (1..Len(pool))}

UserRow(slug, status, name, issued, email, representative) ==
    [slug |-> slug, status |-> status, name |-> name, hp |-> "maru",
     acct |-> <<issued, "", email>>, rep |-> representative]

UserBase(slug, issued, email) ==
    [slug |-> slug, name |-> "n1", hp |-> "maru", acct |-> <<issued, "", email>>,
     order |-> "1"]

\* Existing users when slugs are allocated.
AllocUserPool ==
    <<User(Slug0001, "n1", "e1"), User(Slug0003, "n2", "e2"),
      User(Slug9998, "n3", "e4"), User(Slug9999, "n4", "e5")>>

\* A user whose slug is no cs slug.
AdminUser == User(<<"a", "d">>, "n5", "e6")

\* Every selection of AllocUserPool, and two tables led by AdminUser.
AllocUserTables ==
    UserTables(AllocUserPool)
    \cup {<<AdminUser>>, <<AdminUser, User(Slug0003, "n2", "e2")>>}

\* Rows of the main sheet when slugs are allocated: shinki rows with or
\* without a name, with a registered or a fresh email; shinki rows that are
\* no candidate; rows of the known circle A whose account was just issued.
AllocRows ==
    {UserRow("", "shinki", "n1", "maru", em, <<>>) : em \in {"e1", "e3"}}
    \cup {UserRow("", "shinki", "", "maru", "e3", <<>>),
          UserRow("", "shinki", "n1", "", "e3", <<>>),
          UserRow("", "shinki", "n1", "maru", "nan", <<>>)}
    \cup {UserRow("A", "", "n1", "maru", em, rp) :
              em \in {"e1", "e3"}, rp \in {Slug0001, <<>>}}

AllocBaselines == {<<UserBase("A", "", "")>>, <<UserBase("A", "", "e3")>>}

UserInit ==
    /\ fmt_in \in [main_data     : NonEmptySeqsUpTo(AllocRows, MaxUserRows),
                   original_data : AllocBaselines,
                   hp_column     : {TRUE},
                   user_data     : AllocUserTables]
    /\ fmt_out = [status |-> "pending", formatted_data |-> <<>>, import_files |-> NoFiles]

\* Existing users when user rows are updated.  As in a WordPress user
\* export, no two users share a slug or an email.
ModUserPool == <<User(Slug0001, "n1", "e1"), User(Slug0003, "n2", "e2")>>

\* Rows of the main sheet when user rows are updated: rows of the known
\* circle A under every name, email and representative; one with the email
\* removed; one without slug.
ModRows ==
    {UserRow("A", "", nm, "maru", em, rp) :
        nm \in {"n1", "n2"}, em \in {"e1", "e2", "e3"},
        rp \in {Slug0001, Slug0003, <<>>}}
    \cup {UserRow("A", "", "n2", "maru", "", Slug0001),
          UserRow("", "", "n2", "maru", "e2", Slug0001)}

ModBaselines ==
    {<<>>, <<UserBase("A", "", "")>>, <<UserBase("A", "maru", "e1")>>}

UserModInit ==
    /\ fmt_in \in [main_data     : NonEmptySeqsUpTo(ModRows, MaxModRows),
                   original_data : ModBaselines,
                   hp_column     : {TRUE},
                   user_data     : UserTables(ModUserPool)]
    /\ fmt_out = [status |-> "pending", formatted_data |-> <<>>, import_files |-> NoFiles]

\* create_import_data_callback: format, then build the files.
CreateImportData ==
    /\ fmt_out.status = "pending"
    /\ LET formatted_data ==
               format_for_import(fmt_in.main_data, fmt_in.original_data, fmt_in.hp_column)
       IN  fmt_out' = [status         |-> "done",
                       formatted_data |-> formatted_data,
                       import_files   |-> create_import_files(formatted_data,
                                              fmt_in.original_data, fmt_in.user_data,
                                              fmt_in.main_data, fmt_in.hp_column)]
    /\ UNCHANGED <<fmt_in, nonFmtVars>>

NextFmt == CreateImportData

\* The publication-status cell a baseline row, or the sheet row copied
\* from it, holds before format_for_import rewrites it.
WithStatusColumn(row, st) == row @@ [st |-> st]

\* Baselines of circles A and B whose publication status is given: each
\* circle is publish or private and stands first or second.
ReorderBaselines ==
    {<<WithStatusColumn(BaseRow("A", a), sa), WithStatusColumn(BaseRow("B", b), sb)>> :
        a \in {"1", "2"}, b \in {"1", "2"},
        sa \in {"publish", "private"}, sb \in {"publish", "private"}}

\* Sheets over such a baseline: every row is a copy of the baseline row of
\* its slug, publication status included, under any status the operator
\* may have typed and with the HP flag set or not.
ReorderInit ==
    /\ fmt_in \in
          {f \in [main_data     : NonEmptySeqsUpTo(
                                      {WithStatusColumn(MainRow(sl, os, "n", hp, BaseAcct), st) :
                                          sl \in {"A", "B"}, os \in {"", "shusei", "sakujo"},
                                          hp \in {"maru", ""},
                                          st \in {"publish", "private"}}, MaxFmtRows),
                  original_data : ReorderBaselines,
                  hp_column     : BOOLEAN,
                  user_data     : {FmtUsers}] :
              \A i \in 1..Len(f.main_data) : \E k \in 1..Len(f.original_data) :
                  /\ f.original_data[k].slug = f.main_data[i].slug
                  /\ f.original_data[k].st = f.main_data[i].st}
    /\ fmt_out = [status |-> "pending", formatted_data |-> <<>>, import_files |-> NoFiles]

-----------------------------------------------------------------------------
(* The validation run: perform_data_validation with check #1,            *)
(* validate_modification_status.                                          *)

valid_statuses == {"shusei", "shinki", "keisaijun", "sakujo"}

\* The error fragments validate_modification_status gives one row:
\*   "invalid_status"   the status is none of the four values
\*   "unchanged"        shusei, but no value was changed
\*   "shinki_slug"      shinki, but the slug cell is filled
\*   "shinki_hp"        shinki, but the HP flag is not the circle mark
\*   "order_unchanged"  keisaijun, but junban is what the baseline has
modification_status_errors(row, original_data, hp_column) ==
    LET status == normalize_value(row.status)
        found  == original_rows(original_data, row.slug)
    IN  (IF status # "" /\ status \notin valid_statuses
         THEN {"invalid_status"} ELSE {})
        \cup
        (IF status = "shusei"
         THEN IF /\ found # <<>>
                 /\ ~check_columns_differ(row, found[1], hp_column)
                 /\ ~is_only_account_related_change(row, original_data, hp_column)
              THEN {"unchanged"} ELSE {}
         ELSE IF status = "shinki"
         THEN (IF normalize_value(row.slug) # "" THEN {"shinki_slug"} ELSE {})
              \cup (IF ~hp_column \/ normalize_value(row.hp) # "maru"
                    THEN {"shinki_hp"} ELSE {})
         ELSE IF status = "keisaijun"
         THEN IF /\ found # <<>>
                 /\ normalize_value(row.order) = normalize_value(found[1].order)
              THEN {"order_unchanged"} ELSE {}
         ELSE {})

validate_modification_status(main_data, original_data, hp_column) ==
    [i \in 1..Len(main_data) |->
        modification_status_errors(main_data[i], original_data, hp_column)]

\* The keys of the synchronous checks, in the order the engine runs them.
validation_functions ==
    <<"modification_status", "empty_status", "machine_dependent", "cell_breaks",
      "prohibited_changes", "consecutive_spaces", "alphanumeric", "email",
      "required_fields", "circle_cross", "facility_location", "status_column",
      "account_issue_date", "weekdays", "business_hours">>

\* The asynchronous check, run after the synchronous ones.
async_validation_functions == <<"website_urls">>

\* What calling the validators does: raising holds the keys of the checks
\* that raise, found gives the fragment list a check other than check #1
\* returns (a check without an entry finds nothing).  A fragment is the set
\* of findings of one check on one row; the empty set is the blank text.
NoCalls == [raising |-> {}, found |-> [k \in {} |-> <<>>]]

\* The join of one row keeps its first fragment only.
combine_errors_first_only(all_errors, i) ==
    LET with_text == {k \in 1..Len(all_errors) :
                         i <= Len(all_errors[k]) /\ all_errors[k][i] # {}}
    IN  IF with_text = {} THEN <<>>
        ELSE <<all_errors[CHOOSE k \in with_text : \A j \in with_text : k <= j][i]>>

\* ', '.join of the non-blank fragments the executed checks gave row i.
combine_errors(all_errors, i) ==
    LET row_errors == [k \in 1..Len(all_errors) |->
                          IF i <= Len(all_errors[k]) THEN all_errors[k][i] ELSE {}]
    IN  SelectSeq(row_errors, LAMBDA fragment : fragment # {})

\* perform_data_validation: the selected checks run in order, a raising
\* check counts as executed and gives blank fragments, and the error column
\* joins the fragments of each row.
perform_data_validation(main_data, original_data, hp_column, validation_options, calls) ==
    LET blank == [i \in 1..Len(main_data) |-> {}]
        \* validation_options.get(validation_key, False)
        selected(validation_key) ==
            /\ validation_key \in DOMAIN validation_options
            /\ validation_options[validation_key]
        validation_func(validation_key) ==
            IF validation_key = "modification_status"
            THEN validate_modification_status(main_data, original_data, hp_column)
            ELSE IF validation_key \in DOMAIN calls.found
            THEN calls.found[validation_key]
            ELSE blank
        run(functions) ==
            LET chosen == SelectSeq(functions, selected)
            IN  [k \in 1..Len(chosen) |->
                    [key    |-> chosen[k],
                     failed |-> chosen[k] \in calls.raising,
                     errors |-> IF chosen[k] \in calls.raising THEN blank
                                ELSE validation_func(chosen[k])]]
        runs == run(validation_functions) \o run(async_validation_functions)
        all_errors == [k \in 1..Len(runs) |-> runs[k].errors]
    IN  [errors   |-> [i \in 1..Len(main_data) |->
                          IF runs = <<>> THEN <<>> ELSE combine_errors(all_errors, i)],
         executed_validations |->
             [k \in 1..Len(runs) |-> [key |-> runs[k].key, failed |-> runs[k].failed]],
         warning  |-> runs = <<>>]

ChkRow(slug, status, name, hp, acct, order) ==
    [slug |-> slug, status |-> status, name |-> name, hp |-> hp, acct |-> acct,
     rep |-> <<>>, order |-> order]

\* Rows of the main sheet under validation: shusei rows of circle A with
\* edits in the name, the HP flag, the account cells or junban; shusei rows
\* of a circle that may be unknown; keisaijun rows; shinki rows; rows of
\* another, blank or invalid status.
ChkRows ==
    {ChkRow("A", "shusei", nm, hp, ac, "1") :
        nm \in {"n", "m"}, hp \in {"maru", ""}, ac \in AcctCells}
    \cup {ChkRow("A", "shusei", "n", "maru", BaseAcct, "2")}
    \cup {ChkRow(sl, "shusei", "n", "maru", ac, "1") :
             sl \in {"B", ""}, ac \in {BaseAcct, <<"maru", "R6,4", "e1">>}}
    \cup {ChkRow("A", "keisaijun", "n", "maru", BaseAcct, od) : od \in {"1", "2"}}
    \cup {ChkRow(sl, "shinki", "n", hp, BaseAcct, "1") :
             sl \in {"A", ""}, hp \in {"maru", ""}}
    \cup {ChkRow("A", st, "n", "maru", BaseAcct, "1") : st \in {"", "sakujo", "other"}}

ChkBaselines == {<<BaseRow("A", "1")>>, <<BaseRow("A", "1"), BaseRow("B", "2")>>}

NoValidation(status) ==
    [status |-> status, errors |-> <<>>, executed |-> <<>>, warning |-> FALSE]

ChkInit ==
    /\ chk_in \in [main_data          : NonEmptySeqsUpTo(ChkRows, MaxChkRows),
                   original_data      : ChkBaselines,
                   hp_column          : BOOLEAN,
                   validation_options : [modification_status : BOOLEAN],
                   calls              : {NoCalls}]
    /\ chk_out = NoValidation("pending")

\* One call of perform_data_validation.
StartValidation ==
    /\ chk_out.status = "pending"
    /\ LET validated_data ==
               perform_data_validation(chk_in.main_data, chk_in.original_data,
                                       chk_in.hp_column, chk_in.validation_options,
                                       chk_in.calls)
       IN  chk_out' = [status   |-> "done",
                       errors   |-> validated_data.errors,
                       executed |-> validated_data.executed_validations,
                       warning  |-> validated_data.warning]
    /\ UNCHANGED <<chk_in, nonChkVars>>

NextChk == StartValidation

\* The checks whose selection, failure and findings vary when the engine is
\* exercised: the first synchronous check, one in the middle, and the
\* asynchronous one.  The other thirteen are selected or not as a block and
\* find nothing.
FreeChecks == {"modification_status", "email", "website_urls"}

\* A row check #1 accepts and one it flags for its status.
RunRows == {ChkRow("A", st, "n", "maru", BaseAcct, "1") : st \in {"sakujo", "other"}}

RunInit ==
    /\ \E main_data \in NonEmptySeqsUpTo(RunRows, MaxRunRows),
          on \in SUBSET FreeChecks, rest \in BOOLEAN, raising \in SUBSET FreeChecks :
          \E flagged \in [FreeChecks \ {"modification_status"} ->
                              SUBSET (1..Len(main_data))] :
              chk_in = [main_data          |-> main_data,
                        original_data      |-> <<BaseRow("A", "1")>>,
                        hp_column          |-> TRUE,
                        validation_options |->
                            [k \in Range(validation_functions)
                                   \cup Range(async_validation_functions) |->
                                IF k \in FreeChecks THEN k \in on ELSE rest],
                        calls |->
                            [raising |-> raising,
                             found   |-> [k \in DOMAIN flagged |->
                                            [i \in 1..Len(main_data) |->
                                                IF i \in flagged[k] THEN {k} ELSE {}]]]]
    /\ chk_out = NoValidation("pending")

-----------------------------------------------------------------------------
(* The import page: show_import_data_page and the session state it keeps. *)
(* A key of the session state holds {} when it is None or absent and {v}   *)
(* when it holds v.  The transient payloads are kept as the set of their   *)
(* keys that are present.                                                  *)

\* The checkboxes of the page, in the order it lays them out.
validation_items ==
    <<"modification_status", "empty_status", "machine_dependent", "cell_breaks",
      "prohibited_changes", "consecutive_spaces", "alphanumeric", "email",
      "required_fields", "circle_cross", "facility_location", "status_column",
      "website_urls", "weekdays", "business_hours">>

\* Every checkbox starts ticked.
default_value == [key \in Range(validation_items) |-> TRUE]

\* The keys the import-file creation leaves for the page to show.
payload_keys ==
    {"user_creation_warning", "user_modification_warning",
     "user_modification_details", "user_comprehensive_details",
     "already_issued_users"}

initialize_session_state ==
    [validation_completed |-> FALSE,
     validated_data       |-> {},
     import_data_created  |-> FALSE,
     import_files         |-> {},
     formatted_data       |-> {},
     balloons_shown       |-> {},
     uploaded_files_hash  |-> [excel |-> {}, facility |-> {}, user |-> {}],
     payloads             |-> {}]

\* hashlib.md5(file_content).hexdigest(): the digest names the content; the
\* contents of the model have pairwise different digests.
md5(file_content) == [hexdigest |-> file_content]

\* reset_import_session_state that leaves import_data_created as it is.
reset_import_session_state_keeps_created(ss) ==
    [ss EXCEPT !.validation_completed = FALSE,
               !.validated_data       = {},
               !.import_files         = {},
               !.formatted_data       = {},
               !.balloons_shown       = {FALSE},
               !.payloads             = {}]

reset_import_session_state(ss) ==
    [ss EXCEPT !.validation_completed = FALSE,
               !.validated_data       = {},
               !.import_data_created  = FALSE,
               !.import_files         = {},
               !.formatted_data       = {},
               !.balloons_shown       = {FALSE},
               !.payloads             = {}]

\* check_file_changed that compares with the stored checksum and does not
\* store the new one.
check_file_changed_without_store(ss, file, file_type) ==
    [changed       |-> /\ file # NoFile
                       /\ ss.uploaded_files_hash[file_type] # {md5(file.rows)},
     session_state |-> ss]

\* check_file_changed: whether the upload differs from the checksum kept for
\* its slot, and the session state with the new checksum in that slot.
check_file_changed(ss, file, file_type) ==
    IF file = NoFile
    THEN [changed |-> FALSE, session_state |-> ss]
    ELSE LET file_hash     == md5(file.rows)
             previous_hash == ss.uploaded_files_hash[file_type]
         IN  IF previous_hash # {file_hash}
             THEN [changed       |-> TRUE,
                   session_state |->
                       [ss EXCEPT !.uploaded_files_hash[file_type] = {file_hash}]]
             ELSE [changed |-> FALSE, session_state |-> ss]

\* The payload keys in the session state after create_modified_user_data
\* and create_user_import_data ran with the outcome users: the warnings of
\* rejected rows, the details of updated users, the list of users found
\* issued already, and the consolidated preview of updated and new users.
stored_payloads(payloads, users) ==
    LET modification ==
            (IF users.user_modification_errors # <<>>
             THEN {"user_modification_warning"} ELSE {})
            \cup (IF users.modified_users_df # <<>>
                  THEN {"user_modification_details"} ELSE {})
        creation ==
            (IF users.user_creation_errors # <<>>
             THEN {"user_creation_warning"} ELSE {})
            \cup (IF users.already_issued_users # <<>>
                  THEN {"already_issued_users"} ELSE {})
        all_user_details ==
            \/ "user_modification_details" \in payloads \cup modification
            \/ users.new_users # <<>>
    IN  payloads \cup modification \cup creation
            \cup (IF all_user_details THEN {"user_comprehensive_details"} ELSE {})

\* The upload section of the page script: each uploader that holds a file
\* has it checked against the checksum of its slot, and a changed file
\* resets the caches.
upload_files(ss, widgets) ==
    LET excel    == check_file_changed(ss, widgets.excel, "excel")
        s1       == IF excel.changed
                    THEN reset_import_session_state(excel.session_state)
                    ELSE excel.session_state
        facility == check_file_changed(s1, widgets.facility, "facility")
        s2       == IF facility.changed
                    THEN reset_import_session_state(facility.session_state)
                    ELSE facility.session_state
        user     == check_file_changed(s2, widgets.user, "user")
    IN  [session_state |-> IF user.changed
                           THEN reset_import_session_state(user.session_state)
                           ELSE user.session_state,
         changed       |-> (IF excel.changed THEN {"excel"} ELSE {})
                           \cup (IF facility.changed THEN {"facility"} ELSE {})
                           \cup (IF user.changed THEN {"user"} ELSE {}),
         all_data_ready |-> /\ widgets.excel # NoFile
                            /\ widgets.facility # NoFile
                            /\ widgets.user # NoFile]

\* The value the skip-rows input starts with.
DefaultSkipRows == 2

\* validate_import_excel_file: both sheets are read without the first
\* skip_rows_count rows below the header.  The workbooks of the model list
\* the rows that follow the DefaultSkipRows explanation rows of a sheet, so
\* that count loads them all and a larger one drops rows from the top.
validate_import_excel_file(excel_file, skip_rows_count) ==
    LET read(sheet) == SubSeq(sheet, skip_rows_count - DefaultSkipRows + 1, Len(sheet))
    IN  [main_data     |-> read(excel_file.rows.main_data),
         original_data |-> read(excel_file.rows.original_data)]

\* The start-validation button: the options are read off the checkboxes of
\* the page, and the checks other than check #1 find nothing in the
\* workbooks of the model.
start_validation(widgets) ==
    perform_data_validation(validate_import_excel_file(widgets.excel,
                                                       widgets.skip_rows).main_data,
                            validate_import_excel_file(widgets.excel,
                                                       widgets.skip_rows).original_data,
                            TRUE,
                            [key \in Range(validation_items) |-> widgets.checks[key]],
                            NoCalls)

\* The result section of the page script, entered when all files are there.
show_results(ss) ==
    LET shown    == ss.validation_completed /\ ss.validated_data # {}
        errors   == CHOOSE column \in ss.validated_data : TRUE
        error_count == Cardinality({i \in 1..Len(errors) : errors[i] # <<>>})
        success  == shown /\ error_count = 0
        balloons == success /\ ss.balloons_shown # {TRUE}
        created  == success /\ ss.import_data_created /\ ss.import_files # {}
        import_files == CHOOSE files \in ss.import_files : TRUE
        listed   == created /\ import_files.names # {}
        rendered == IF listed
                    THEN ss.payloads \ {"user_modification_details"}
                    ELSE {}
        deleted  == IF listed /\ "user_comprehensive_details" \in ss.payloads
                    THEN rendered \cup {"user_modification_details"}
                    ELSE rendered
    IN  [session_state    |-> [ss EXCEPT !.balloons_shown = IF balloons THEN {TRUE} ELSE @,
                                         !.payloads       = @ \ deleted],
         error_table      |-> shown /\ error_count > 0,
         success          |-> success,
         balloons         |-> balloons,
         button_offered   |-> success,
         files_listed     |-> IF listed THEN import_files.names ELSE {},
         no_files_warning |-> created /\ ~listed,
         rendered         |-> rendered]

\* What the page shows while a file is missing.
NoResults(ss) ==
    [session_state |-> ss, error_table |-> FALSE, success |-> FALSE,
     balloons |-> FALSE, button_offered |-> FALSE, files_listed |-> {},
     no_files_warning |-> FALSE, rendered |-> {}]

\* One run of the page script over the widgets; event names the
\* interaction that caused the run.  Each section works on the session
\* state the section before it left.  The state of the checkboxes lives
\* only while the page renders them.  Beside what the run shows, the view
\* records the tables the run loaded and, as history, the tables the
\* cached validation result and the cached file map were computed from.
show_import_data_page(ss, widgets, event) ==
    \E uploaded \in {upload_files(ss, widgets)} :
    \E loaded \in {IF widgets.excel = NoFile THEN {}
                   ELSE {validate_import_excel_file(widgets.excel, widgets.skip_rows)}} :
        LET started == uploaded.all_data_ready /\ event = "start_validation"
        IN  \E validated_data \in
                   {IF started THEN start_validation(widgets) ELSE NoValidation("none")} :
            \E results \in
                   {IF ~uploaded.all_data_ready THEN NoResults(uploaded.session_state)
                    ELSE IF started
                    THEN show_results([uploaded.session_state EXCEPT
                                          !.validated_data       = {validated_data.errors},
                                          !.validation_completed = TRUE])
                    ELSE show_results(uploaded.session_state)} :
                /\ session_state' = results.session_state
                /\ import_page' = IF uploaded.all_data_ready THEN widgets
                                  ELSE [widgets EXCEPT !.checks = default_value]
                /\ import_view' =
                       [event            |-> event,
                        changed          |-> uploaded.changed,
                        all_data_ready   |-> uploaded.all_data_ready,
                        executed         |-> IF started
                                             THEN [k \in 1..Len(validated_data.executed_validations)
                                                     |-> validated_data.executed_validations[k].key]
                                             ELSE <<>>,
                        error_table      |-> results.error_table,
                        success          |-> results.success,
                        balloons         |-> results.balloons,
                        button_offered   |-> results.button_offered,
                        files_listed     |-> results.files_listed,
                        no_files_warning |-> results.no_files_warning,
                        rendered         |-> results.rendered,
                        loaded           |-> loaded,
                        validated_from   |->
                            IF started THEN loaded
                            ELSE IF results.session_state.validated_data = {} THEN {}
                            ELSE import_view.validated_from,
                        created_from     |->
                            IF results.session_state.import_files = {} THEN {}
                            ELSE IF event = "create_import_data" THEN loaded
                            ELSE import_view.created_from]
                /\ UNCHANGED nonImportVars

\* The edited workbooks put into the uploader (main sheet and baseline):
\* one new circle with an account to issue; a row of an unknown status; a
\* known circle whose account is marked issued for the user who holds it
\* already; a new circle whose account row lacks the circle name.
ImportWorkbooks ==
    {[main_data |-> <<row>>, original_data |-> <<UserBase("A", "", "")>>] :
        row \in {UserRow("", "shinki", "n2", "maru", "e3", <<>>),
                 UserRow("A", "other", "n1", "", "", <<>>),
                 UserRow("A", "", "n1", "maru", "e1", Slug0001),
                 UserRow("", "shinki", "", "maru", "e3", <<>>)}}

\* What each uploader of the page may hold.
ImportFiles ==
    [excel    |-> {NoFile} \cup {OkFile(w) : w \in ImportWorkbooks},
     facility |-> {NoFile, OkFile(<<"F1">>)},
     user     |-> {NoFile, OkFile(<<User(Slug0001, "n1", "e1")>>),
                   OkFile(<<User(Slug0001, "n1", "e1"), User(Slug0003, "n2", "e2")>>)}]

\* The checkboxes the operator ticks one by one.
ToggledItems == {"modification_status", "business_hours"}

\* The page before any upload.
ImportInit ==
    /\ session_state = initialize_session_state
    /\ import_page = [excel |-> NoFile, facility |-> NoFile, user |-> NoFile,
                      skip_rows |-> DefaultSkipRows, checks |-> default_value]
    /\ import_view = [event |-> "rerun", changed |-> {}, all_data_ready |-> FALSE,
                      executed |-> <<>>, error_table |-> FALSE, success |-> FALSE,
                      balloons |-> FALSE, button_offered |-> FALSE,
                      files_listed |-> {}, no_files_warning |-> FALSE,
                      rendered |-> {}, loaded |-> {}, validated_from |-> {},
                      created_from |-> {}]

\* The operator puts a file into one of the uploaders, or clears it.
ImportUpload ==
    \E slot \in DOMAIN ImportFiles :
        \E file \in ImportFiles[slot] :
            show_import_data_page(session_state,
                                  [import_page EXCEPT ![slot] = file], "upload")

ToggleCheck ==
    /\ import_view.all_data_ready
    /\ \E key \in ToggledItems :
          show_import_data_page(session_state,
                                [import_page EXCEPT !.checks[key] = ~@], "toggle")

\* select_all_callback, then the run.
SelectAll ==
    /\ import_view.all_data_ready
    /\ show_import_data_page(session_state,
           [import_page EXCEPT !.checks = [key \in Range(validation_items) |-> TRUE]],
           "select_all")

\* deselect_all_callback, then the run.
DeselectAll ==
    /\ import_view.all_data_ready
    /\ show_import_data_page(session_state,
           [import_page EXCEPT !.checks = [key \in Range(validation_items) |-> FALSE]],
           "deselect_all")

ClickStartValidation ==
    /\ import_view.all_data_ready
    /\ show_import_data_page(session_state, import_page, "start_validation")

\* The create button exists only in a run that rendered it.  Its callback,
\* create_import_data_callback, runs before the script does: it formats the
\* main sheet, builds the files and caches both.
ClickCreateImportData ==
    /\ import_view.button_offered
    /\ \E tables \in {validate_import_excel_file(import_page.excel,
                                                 import_page.skip_rows)} :
       \E formatted_data \in
              {format_for_import(tables.main_data, tables.original_data, TRUE)} :
       \E import_files \in
              {create_import_files(formatted_data, tables.original_data,
                                   import_page.user.rows, tables.main_data, TRUE)} :
       \E after_callback \in
              {[session_state EXCEPT
                   !.import_files        = {import_files},
                   !.formatted_data      = {formatted_data},
                   !.import_data_created = TRUE,
                   !.payloads            = stored_payloads(@, import_files.users)]} :
          show_import_data_page(after_callback, import_page, "create_import_data")

\* Any other interaction reruns the script.
OtherInteraction == show_import_data_page(session_state, import_page, "rerun")

\* A workbook whose first row has an invalid status and whose second row
\* is a new circle, over a baseline of the circles A and B.
SkipWorkbook ==
    [main_data     |-> <<UserRow("A", "other", "n1", "", "", <<>>),
                         UserRow("", "shinki", "n2", "maru", "e3", <<>>)>>,
     original_data |-> <<UserBase("A", "", ""), UserBase("B", "", "")>>]

\* What each uploader may hold when the skip-rows input is exercised.
SkipFiles ==
    [excel    |-> {NoFile, OkFile(SkipWorkbook),
                   OkFile([main_data     |-> <<UserRow("", "shinki", "n2", "maru", "e3", <<>>)>>,
                           original_data |-> <<UserBase("A", "", "")>>])},
     facility |-> {NoFile, OkFile(<<"F1">>)},
     user     |-> {NoFile, OkFile(<<User(Slug0001, "n1", "e1")>>)}]

SkipUpload ==
    \E slot \in DOMAIN SkipFiles :
        \E file \in SkipFiles[slot] :
            show_import_data_page(session_state,
                                  [import_page EXCEPT ![slot] = file], "upload")

\* The counts the operator enters: the default, or one row more.
SkipRowCounts == {DefaultSkipRows, DefaultSkipRows + 1}

\* The operator changes the skip-rows input; the script runs again.
ChangeSkipRows ==
    \E count \in SkipRowCounts \ {import_page.skip_rows} :
        show_import_data_page(session_state,
                              [import_page EXCEPT !.skip_rows = count], "skip_rows")

NextSkip ==
    \/ SkipUpload
    \/ ChangeSkipRows
    \/ ClickStartValidation
    \/ ClickCreateImportData
    \/ OtherInteraction

NextImport ==
    \/ ImportUpload
    \/ ToggleCheck
    \/ SelectAll
    \/ DeselectAll
    \/ ClickStartValidation
    \/ ClickCreateImportData
    \/ OtherInteraction

-----------------------------------------------------------------------------
(* The action log: log_session_state_change and the clear button. *)

\* The log keeps its oldest entries when it overflows.
log_session_state_change_keeps_oldest(log, log_entry) ==
    LET appended == Append(log, log_entry)
    IN  IF Len(appended) > 50 THEN SubSeq(appended, 1, 50) ELSE appended

\* log_session_state_change: append, then keep the last 50.
log_session_state_change(log, log_entry) ==
    LET appended == Append(log, log_entry)
    IN  IF Len(appended) > 50
        THEN SubSeq(appended, Len(appended) - 50 + 1, Len(appended))
        ELSE appended

LogInit == session_log = <<>> /\ log_clock = [now |-> 0, cleared |-> 0]

\* One call of log_session_state_change; the clock ticks between calls.
LogSessionStateChange ==
    /\ log_clock.now < MaxLogCalls
    /\ log_clock' = [log_clock EXCEPT !.now = @ + 1]
    /\ session_log' = log_session_state_change(session_log,
                          [timestamp |-> log_clock.now + 1, action |-> "rerun"])
    /\ UNCHANGED nonLogVars

\* The clear button of the debug panel.
ClearLog ==
    /\ session_log # <<>>
    /\ session_log' = <<>>
    /\ log_clock' = [log_clock EXCEPT !.cleared = log_clock.now]
    /\ UNCHANGED nonLogVars

NextLog == LogSessionStateChange \/ ClearLog

-----------------------------------------------------------------------------
(* The checks on single cells: is_url_alive, validate_business_hours and  *)
(* validate_account_issue_date.  Each specification puts one input into    *)
(* chk_in and its action leaves the outcome in chk_out.                    *)

\* str.strip on a text written as characters.
RECURSIVE strip(_)
strip(text) ==
    IF text # <<>> /\ text[1] = " " THEN strip(Tail(text))
    ELSE IF text # <<>> /\ text[Len(text)] = " "
    THEN strip(SubSeq(text, 1, Len(text) - 1))
    ELSE text

\* Whether int(text) returns: blanks around the digits are ignored; the
\* texts of the model hold no sign.
int_parses(text) ==
    strip(text) # <<>> /\ \A i \in 1..Len(strip(text)) : IsDigit(strip(text)[i])

\* What a request of is_url_alive meets: a response with its status and
\* its Access-Control-Allow-Origin header, or an exception of aiohttp.
Outcomes ==
    [kind : {"response"}, status : {200, 204, 301, 403, 404, 405, 500},
     cors_origin : {"absent", "*", "null", "site"}]
    \cup [kind : {"ssl_error", "cannot_connect", "timeout", "error"},
          status : {0}, cors_origin : {"absent"}]

\* A diagnostic names its kind and the status code its text quotes (0 when
\* it quotes none); the blank text is NoDiagnostic.
NoDiagnostic == [kind |-> "", status |-> 0]

\* is_url_alive on a URL given as its scheme prefix ("" when it has none)
\* and the rest ("" for the blank URL): the requests it sends and the
\* diagnostic it returns when the OPTIONS request meets options, the GET
\* request meets get and the GET retried over http meets http_get.
is_url_alive(url, options, get, http_get) ==
    LET target == IF url.scheme = "" THEN "https://" ELSE url.scheme
        said(kind, status, requests) ==
            [diagnostic |-> [kind |-> kind, status |-> status], requests |-> requests]
    IN  IF url.rest = ""
        THEN [diagnostic |-> NoDiagnostic, requests |-> <<>>]
        ELSE IF options.kind = "response" /\ options.status \notin {403, 200, 204}
        THEN said("preflight", options.status, <<"OPTIONS">>)
        ELSE IF get.kind = "response"
        THEN IF get.cors_origin \notin {"absent", "*", "null"}
             THEN said("cors", 0, <<"OPTIONS", "GET">>)
             ELSE IF get.status = 200
             THEN [diagnostic |-> NoDiagnostic, requests |-> <<"OPTIONS", "GET">>]
             ELSE IF get.status \in {301, 302, 307, 308}
             THEN said("redirect", get.status, <<"OPTIONS", "GET">>)
             ELSE said("http_error", get.status, <<"OPTIONS", "GET">>)
        ELSE IF get.kind = "ssl_error"
        THEN IF target = "https://"
             THEN IF http_get.kind # "response"
                  THEN said("ssl_error", 0, <<"OPTIONS", "GET", "GET">>)
                  ELSE IF http_get.status = 200
                  THEN [diagnostic |-> NoDiagnostic,
                        requests |-> <<"OPTIONS", "GET", "GET">>]
                  ELSE said("ssl_http_failed", http_get.status,
                            <<"OPTIONS", "GET", "GET">>)
             ELSE said("ssl_error", 0, <<"OPTIONS", "GET">>)
        ELSE IF get.kind = "cannot_connect"
        THEN said("dns", 0, <<"OPTIONS", "GET">>)
        ELSE IF get.kind = "timeout"
        THEN said("timeout", 0, <<"OPTIONS", "GET">>)
        ELSE said("other", 0, <<"OPTIONS", "GET">>)

\* The blank URL, and a site named with either scheme or with none.  The
\* http retry meets one of three outcomes.
UrlInit ==
    /\ chk_in \in [url      : {[scheme |-> "", rest |-> ""]}
                              \cup [scheme : {"", "http://", "https://"}, rest : {"h"}],
                   options  : {o \in Outcomes : o.cors_origin = "absent"},
                   get      : Outcomes,
                   http_get : {o \in Outcomes :
                                  /\ o.cors_origin = "absent"
                                  /\ o.status \in {0, 200, 404}
                                  /\ o.kind \in {"response", "error"}}]
    /\ chk_out = [status |-> "pending", result |-> <<>>]

CheckUrl ==
    /\ chk_out.status = "pending"
    /\ "url" \in DOMAIN chk_in
    /\ chk_out' = [status |-> "done",
                   result |-> is_url_alive(chk_in.url, chk_in.options, chk_in.get,
                                           chk_in.http_get)]
    /\ UNCHANGED <<chk_in, nonChkVars>>

\* A time cell is written as the list of its ':'-separated fields, each a
\* text of characters; <<>> is the blank cell.
is_valid_time_format(time_str) ==
    /\ time_str # <<>>
    /\ Len(time_str) \in {2, 3}
    /\ \A k \in 1..Len(time_str) : int_parses(time_str[k])
    /\ to_int(time_str[1]) <= 23
    /\ \A k \in 2..Len(time_str) : to_int(time_str[k]) <= 59

\* hours * 60 + minutes
time_to_minutes(time_str) == to_int(time_str[1]) * 60 + to_int(time_str[2])

\* validate_business_hours on the start and end cells of one row: the
\* finding it appends, "" when it appends none.
validate_business_hours(start_value, end_value) ==
    LET start_valid == IF start_value # <<>> THEN is_valid_time_format(start_value)
                       ELSE TRUE
        end_valid   == IF end_value # <<>> THEN is_valid_time_format(end_value)
                       ELSE TRUE
    IN  IF start_value = <<>> /\ end_value = <<>> THEN ""
        ELSE IF start_value # <<>> /\ ~start_valid
        THEN IF end_value # <<>> /\ ~end_valid THEN "start_end_format"
             ELSE "start_format"
        ELSE IF end_value # <<>> /\ ~end_valid THEN "end_format"
        ELSE IF start_value # <<>> /\ end_value # <<>>
                /\ time_to_minutes(start_value) >= time_to_minutes(end_value)
        THEN "reversed"
        ELSE ""

\* Time cells: blank; an hour alone; hour and minute; hour, minute and
\* second; one with a field too many.
TimeCells ==
    LET hours   == {<<"9">>, <<"1", "0">>, <<"2", "5">>, <<"x">>}
        minutes == {<<"0", "0">>, <<"3", "0">>, <<"6", "0">>}
        seconds == {<<"1", "0">>, <<"3", "0">>}
    IN  {<<>>, <<<<"9">>, <<"0", "0">>, <<"0", "0">>, <<"0", "0">>>>}
        \cup {<<h>> : h \in hours}
        \cup {<<h, m>> : h \in hours, m \in minutes}
        \cup {<<h, m, sec>> : h \in hours, m \in minutes, sec \in seconds}

HoursInit ==
    /\ chk_in \in [start_value : TimeCells, end_value : TimeCells]
    /\ chk_out = [status |-> "pending", result |-> <<>>]

CheckBusinessHours ==
    /\ chk_out.status = "pending"
    /\ "start_value" \in DOMAIN chk_in
    /\ chk_out' = [status |-> "done",
                   result |-> validate_business_hours(chk_in.start_value,
                                                      chk_in.end_value)]
    /\ UNCHANGED <<chk_in, nonChkVars>>

\* len(str(time_val)) of a time cell: its fields and the colons between.
RECURSIVE text_length(_)
text_length(cell) ==
    IF cell = <<>> THEN 0
    ELSE IF Len(cell) = 1 THEN Len(cell[1])
    ELSE Len(cell[1]) + 1 + text_length(Tail(cell))

\* strTodatetime of the utility library: a text longer than five
\* characters is read with %H:%M:%S, any other with %H:%M; each directive
\* takes one or two digits, %H up to 23, %M up to 59 and %S up to 61.  The
\* result is the time read, or ok = FALSE for the string 'error'.
strTodatetime(time_val) ==
    LET fields == IF text_length(time_val) > 5 THEN 3 ELSE 2
        read   == /\ Len(time_val) = fields
                  /\ \A k \in 1..fields :
                        /\ Len(time_val[k]) \in {1, 2}
                        /\ \A i \in 1..Len(time_val[k]) : IsDigit(time_val[k][i])
                  /\ to_int(time_val[1]) <= 23
                  /\ to_int(time_val[2]) <= 59
                  /\ fields = 3 => to_int(time_val[3]) <= 61
    IN  IF read
        THEN [ok |-> TRUE, hours |-> to_int(time_val[1]), minutes |-> to_int(time_val[2])]
        ELSE [ok |-> FALSE, hours |-> 0, minutes |-> 0]

\* validate_business_hours of the utility library (src/validate.py) on a
\* start and an end cell: the diagnostic it returns, "" for none.  Both
\* times are rewritten as %H:%M before they are compared.
lib_validate_business_hours(start, end) ==
    IF start = <<>> /\ end = <<>> THEN ""
    ELSE IF ~strTodatetime(start).ok
    THEN IF ~strTodatetime(end).ok THEN "start_end_format" ELSE "start_format"
    ELSE IF ~strTodatetime(end).ok THEN "end_format"
    ELSE LET start_hours   == strTodatetime(start).hours
             start_minutes == strTodatetime(start).minutes
             end_hours     == strTodatetime(end).hours
             end_minutes   == strTodatetime(end).minutes
         IN  IF start_hours >= end_hours
                \/ (start_hours = end_hours /\ start_minutes >= end_minutes)
             THEN "reversed"
             ELSE ""

CheckLibBusinessHours ==
    /\ chk_out.status = "pending"
    /\ "start_value" \in DOMAIN chk_in
    /\ chk_out' = [status |-> "done",
                   result |-> lib_validate_business_hours(chk_in.start_value,
                                                          chk_in.end_value)]
    /\ UNCHANGED <<chk_in, nonChkVars>>

\* A timestamp cell: the separator of its date ("-" or "/"; "blank" for
\* the empty cell, "other" for a text neither format reads) and the date
\* and hour it names.
Timestamps ==
    [format : {"-", "/"}, year : {2024, 2025}, month : {1, 2}, day : {15, 16},
     hour : {9, 10}]
    \cup [format : {"blank", "other"}, year : {2024}, month : {1}, day : {15},
          hour : {9}]

\* The order of datetime.date and of datetime.datetime values.
DateNumber(stamp) == stamp.year * 10000 + stamp.month * 100 + stamp.day
TimeNumber(stamp) == DateNumber(stamp) * 100 + stamp.hour

\* event_time: the diagnostic returned for a start and an end cell and the
\* caller's window of days, "" for none.  Both cells are read with the
\* '-' formats first; a ValueError of either sends both to the '/' formats.
event_time(start, end, event_day_range) ==
    LET outside == \/ DateNumber(start) < DateNumber(event_day_range[1])
                   \/ DateNumber(end) > DateNumber(event_day_range[2])
    IN  IF start.format = "blank" /\ end.format = "blank" THEN ""
        ELSE IF start.format = "-" /\ end.format = "-"
        THEN IF outside THEN "out_of_range"
             ELSE IF start.day # end.day THEN "same_day"
             ELSE IF TimeNumber(start) >= TimeNumber(end) THEN "reversed"
             ELSE ""
        ELSE IF start.format = "/" /\ end.format = "/"
        THEN IF outside THEN "out_of_range"
             ELSE IF start.day # end.day \/ start.month # end.month
                     \/ start.year # end.year
             THEN "same_day"
             ELSE IF TimeNumber(start) >= TimeNumber(end) THEN "reversed"
             ELSE ""
        ELSE "format"

\* The windows a caller passes: both years, or the one day 2024-01-15.
EventWindows ==
    LET day(y, m, d) == [format |-> "-", year |-> y, month |-> m, day |-> d, hour |-> 0]
    IN  {<<day(2024, 1, 1), day(2025, 12, 31)>>,
         <<day(2024, 1, 15), day(2024, 1, 15)>>}

EventInit ==
    /\ chk_in \in [start : Timestamps, end : Timestamps, event_day_range : EventWindows]
    /\ chk_out = [status |-> "pending", result |-> <<>>]

CheckEventTime ==
    /\ chk_out.status = "pending"
    /\ "event_day_range" \in DOMAIN chk_in
    /\ chk_out' = [status |-> "done",
                   result |-> event_time(chk_in.start, chk_in.end,
                                         chk_in.event_day_range)]
    /\ UNCHANGED <<chk_in, nonChkVars>>

\* The Web-site cells of the model, written as characters: blank, a blank
\* character, the URL u, the URL u behind an '@', the URL v.
UrlCells == {<<>>, <<" ">>, <<"u">>, <<"@", "u">>, <<"v">>}

\* n blank fragments.
blank_fragments(n) == [i \in 1..n |-> ""]

\* The first loop of validate_website_urls: the (idx, value) pairs of the
\* rows whose normalised cell is not blank, a leading '@' removed; idx
\* counts from 0.
urls_to_check(cells) ==
    LET filled(i) == strip(cells[i]) # <<>>
        value(i)  == IF strip(cells[i])[1] = "@" THEN Tail(strip(cells[i]))
                     ELSE strip(cells[i])
        RECURSIVE from(_)
        from(i) == IF i > Len(cells) THEN <<>>
                   ELSE IF filled(i)
                   THEN <<[idx |-> i - 1, url |-> value(i)]>> \o from(i + 1)
                   ELSE from(i + 1)
    IN  from(1)

RECURSIVE probe_urls(_, _, _, _)
\* The second loop from the k-th pair on: the list is extended up to idx
\* when it is shorter and the diagnostic of the probe is stored at idx.
probe_urls(errors, to_check, k, answers) ==
    IF k > Len(to_check) THEN errors
    ELSE LET idx      == to_check[k].idx
             extended == IF idx >= Len(errors)
                         THEN errors \o blank_fragments(idx - Len(errors) + 1)
                         ELSE errors
         IN  probe_urls([extended EXCEPT ![idx + 1] = answers[to_check[k].url]],
                        to_check, k + 1, answers)

RECURSIVE extend_only(_, _, _)
\* The handler of a failing session: the list is extended for each pair.
extend_only(errors, to_check, k) ==
    IF k > Len(to_check) THEN errors
    ELSE LET idx == to_check[k].idx
         IN  extend_only(IF idx >= Len(errors)
                         THEN errors \o blank_fragments(idx - Len(errors) + 1)
                         ELSE errors, to_check, k + 1)

\* validate_website_urls on the Web-site column: the list it returns and
\* the URLs handed to is_url_alive, in order.  answers gives the diagnostic
\* of each URL ("" for none); session_fails: opening the session raises.
validate_website_urls(cells, answers, session_fails) ==
    LET to_check == urls_to_check(cells)
        scanned  == blank_fragments(Len(cells) - Len(to_check))
        looped   == IF to_check = <<>> THEN scanned
                    ELSE IF session_fails THEN extend_only(scanned, to_check, 1)
                    ELSE probe_urls(scanned, to_check, 1, answers)
        padded   == IF to_check # <<>> /\ Len(looped) < Len(cells)
                    THEN looped \o blank_fragments(Len(cells) - Len(looped))
                    ELSE looped
    IN  [errors |-> padded,
         probes |-> IF session_fails THEN <<>>
                    ELSE [k \in 1..Len(to_check) |-> to_check[k].url]]

WebsiteInit ==
    /\ chk_in \in [cells : SeqsUpTo(UrlCells, MaxUrlRows) \ {<<>>},
                   answers : [{<<"u">>, <<"v">>} -> {"", "http_error"}],
                   session_fails : BOOLEAN]
    /\ chk_out = [status |-> "pending", result |-> <<>>]

CheckWebsiteUrls ==
    /\ chk_out.status = "pending"
    /\ "cells" \in DOMAIN chk_in
    /\ chk_out' = [status |-> "done",
                   result |-> validate_website_urls(chk_in.cells, chk_in.answers,
                                                    chk_in.session_fails)]
    /\ UNCHANGED <<chk_in, nonChkVars>>

\* The columns validate_prohibited_changes compares, in its order: slug,
\* publication status, the four participant conditions, the application
\* note, the opening-hours label, the representative, the circle name.
prohibited_columns ==
    <<"slug", "publish", "cond_pregnancy", "cond_birth", "cond_1", "cond_2",
      "apply_note", "hours_label", "representative", "name">>

\* A sheet row of the check: its modification-status cell and its cells in
\* the prohibited columns; every column but slug and name holds "k".
ProhibitedRow(status, slug, name) ==
    [status |-> status,
     cells  |-> [col \in Range(prohibited_columns) |->
                    IF col = "slug" THEN slug ELSE IF col = "name" THEN name ELSE "k"]]

\* The baseline of the check: the circles A and B.
ProhibitedBaseline ==
    <<ProhibitedRow("", "A", "n"), ProhibitedRow("", "B", "n")>>

\* validate_prohibited_changes for one row: the prohibited columns reported
\* as changed, in order; <<>> is the blank fragment.  The baseline row is
\* looked up by the slug text of the row itself; a missing slug cell reads
\* "nan".
prohibited_changes_of(row, original_data) ==
    LET slug == IF row.cells["slug"] = "" THEN "nan" ELSE row.cells["slug"]
        original_rows_found == SelectSeq(original_data, LAMBDA o : o.cells["slug"] = slug)
        changed(col) == normalize_value(row.cells[col])
                            # normalize_value(original_rows_found[1].cells[col])
    IN  IF normalize_value(row.status) = "shinki" THEN <<>>
        ELSE IF original_rows_found = <<>> THEN <<>>
        ELSE SelectSeq(prohibited_columns, changed)

validate_prohibited_changes(main_data, original_data) ==
    [i \in 1..Len(main_data) |-> prohibited_changes_of(main_data[i], original_data)]

\* Sheets of the check: each row is a copy of a baseline record (record
\* names its position in the baseline) whose status, slug and name cells
\* the operator may have edited; the slug Z is in no baseline row.
ProhibitedSheetRows ==
    [record : 1..Len(ProhibitedBaseline),
     row    : {ProhibitedRow(st, sl, nm) :
                  st \in {"", "shusei", "shinki"}, sl \in {"A", "B", "Z", ""},
                  nm \in {"n", "m"}}]

ProhibitedInit ==
    /\ chk_in \in [sheet : NonEmptySeqsUpTo(ProhibitedSheetRows, MaxProhibitedRows),
                   original_data : {ProhibitedBaseline}]
    /\ chk_out = [status |-> "pending", result |-> <<>>]

CheckProhibitedChanges ==
    /\ chk_out.status = "pending"
    /\ "sheet" \in DOMAIN chk_in
    /\ chk_out' = [status |-> "done",
                   result |-> validate_prohibited_changes(
                                  [i \in 1..Len(chk_in.sheet) |-> chk_in.sheet[i].row],
                                  chk_in.original_data)]
    /\ UNCHANGED <<chk_in, nonChkVars>>

\* Any year from 1 on is a Reiwa year.
valid_reiwa_year_unbounded(reiwa_year) == 1 <= reiwa_year

\* 1 <= reiwa_year <= 50
valid_reiwa_year(reiwa_year) == 1 <= reiwa_year /\ reiwa_year <= 50

\* convert_wareki_to_seireki_for_validation on a non-blank text written as
\* characters: 0 stands for the result False, otherwise the year and month
\* as yyyymm.
convert_wareki_to_seireki_for_validation(wareki_str) ==
    LET commas == {k \in 1..Len(wareki_str) : wareki_str[k] = ","}
        dots   == {k \in 1..Len(wareki_str) : wareki_str[k] = "."}
        found  == IF commas # {} THEN commas ELSE dots
        at     == CHOOSE k \in found : TRUE
        year_part  == strip(SubSeq(wareki_str, 1, at - 1))
        month_text == SubSeq(wareki_str, at + 1, Len(wareki_str))
    IN  IF Cardinality(found) # 1 THEN 0
        ELSE IF ~int_parses(month_text) THEN 0
        ELSE IF ~(1 <= to_int(strip(month_text)) /\ to_int(strip(month_text)) <= 12)
        THEN 0
        ELSE IF year_part = <<>> \/ year_part[1] # "R" THEN 0
        ELSE IF ~int_parses(Tail(year_part)) THEN 0
        ELSE IF ~valid_reiwa_year(to_int(strip(Tail(year_part)))) THEN 0
        ELSE (2018 + to_int(strip(Tail(year_part)))) * 100 + to_int(strip(month_text))

\* validate_account_issue_date on the cell of one row: whether it is flagged.
validate_account_issue_date(raw_value) ==
    /\ strip(raw_value) # <<>>
    /\ convert_wareki_to_seireki_for_validation(strip(raw_value)) = 0

\* The characters of the short issue-date cells.
DateChars == {"R", "0", "1", "6", ",", ".", " "}

\* Every short text over DateChars, and longer cells: two-digit months and
\* years, a Western year, a lower-case era letter.
DateCells ==
    SeqsUpTo(DateChars, MaxDateLen)
    \cup {<<"R", "0", ",", "1">>, <<"R", "6", ",", "1", "3">>,
          <<"2", "0", "2", "4", ",", "4">>, <<"R", "5", "0", ",", "1", "2">>,
          <<"R", "5", "1", ",", "1">>, <<"R", "6", ".", "1", "2">>,
          <<"r", "6", ",", "4">>, <<"R", "6", ",", "4">>, <<"R", "6", ",", " ", "4">>}

IssueInit ==
    /\ chk_in \in [raw_value : DateCells]
    /\ chk_out = [status |-> "pending", result |-> <<>>]

CheckAccountIssueDate ==
    /\ chk_out.status = "pending"
    /\ "raw_value" \in DOMAIN chk_in
    /\ chk_out' = [status |-> "done",
                   result |-> validate_account_issue_date(chk_in.raw_value)]
    /\ UNCHANGED <<chk_in, nonChkVars>>

-----------------------------------------------------------------------------
(* The specifications. *)

PageIdle ==
    /\ circle_file = NoFile
    /\ facility_file = NoFile
    /\ last_month_file = NoFile
    /\ page = show_excel_creation_page(NoFile, NoFile, NoFile, FALSE)

CsvIdle == csv_buf = <<>> /\ csv_result = CsvNoResult("idle")

FmtIdle ==
    /\ fmt_in = [main_data |-> <<>>, original_data |-> <<>>, hp_column |-> FALSE,
                 user_data |-> <<>>]
    /\ fmt_out = [status |-> "idle", formatted_data |-> <<>>, import_files |-> NoFiles]

ChkIdle ==
    /\ chk_in = [main_data |-> <<>>, original_data |-> <<>>, hp_column |-> FALSE,
                 validation_options |-> [modification_status |-> FALSE],
                 calls |-> NoCalls]
    /\ chk_out = NoValidation("idle")

\* Each specification starts its own part and leaves the others idle.
InitPage == PageInit /\ CsvIdle /\ FmtIdle /\ ChkIdle /\ ImportInit /\ LogInit

InitCsv == CsvInit /\ PageIdle /\ FmtIdle /\ ChkIdle /\ ImportInit /\ LogInit

InitFmt == FmtInit /\ PageIdle /\ CsvIdle /\ ChkIdle /\ ImportInit /\ LogInit

InitUser == UserInit /\ PageIdle /\ CsvIdle /\ ChkIdle /\ ImportInit /\ LogInit

InitUserMod == UserModInit /\ PageIdle /\ CsvIdle /\ ChkIdle /\ ImportInit /\ LogInit

InitChk == ChkInit /\ PageIdle /\ CsvIdle /\ FmtIdle /\ ImportInit /\ LogInit

InitImport == ImportInit /\ PageIdle /\ CsvIdle /\ FmtIdle /\ ChkIdle /\ LogInit

InitLog == LogInit /\ PageIdle /\ CsvIdle /\ FmtIdle /\ ChkIdle /\ ImportInit

InitUrl == UrlInit /\ PageIdle /\ CsvIdle /\ FmtIdle /\ ImportInit /\ LogInit

InitHours == HoursInit /\ PageIdle /\ CsvIdle /\ FmtIdle /\ ImportInit /\ LogInit

InitLibHours == HoursInit /\ PageIdle /\ CsvIdle /\ FmtIdle /\ ImportInit /\ LogInit

InitEvent == EventInit /\ PageIdle /\ CsvIdle /\ FmtIdle /\ ImportInit /\ LogInit

InitWebsite == WebsiteInit /\ PageIdle /\ CsvIdle /\ FmtIdle /\ ImportInit /\ LogInit

InitProhibited == ProhibitedInit /\ PageIdle /\ CsvIdle /\ FmtIdle /\ ImportInit /\ LogInit

InitReorder == ReorderInit /\ PageIdle /\ CsvIdle /\ ChkIdle /\ ImportInit /\ LogInit

InitSkip == ImportInit /\ PageIdle /\ CsvIdle /\ FmtIdle /\ ChkIdle /\ LogInit

InitIssue == IssueInit /\ PageIdle /\ CsvIdle /\ FmtIdle /\ ImportInit /\ LogInit

InitRun == RunInit /\ PageIdle /\ CsvIdle /\ FmtIdle /\ ImportInit /\ LogInit

Spec == InitPage /\ [][Next]_vars

SpecCsv == InitCsv /\ [][NextCsv]_vars

SpecFmt == InitFmt /\ [][NextFmt]_vars

SpecUser == InitUser /\ [][NextFmt]_vars

SpecUserMod == InitUserMod /\ [][NextFmt]_vars

SpecChk == InitChk /\ [][NextChk]_vars

SpecRun == InitRun /\ [][NextChk]_vars

SpecUrl == InitUrl /\ [][CheckUrl]_vars

SpecHours == InitHours /\ [][CheckBusinessHours]_vars

SpecLibHours == InitLibHours /\ [][CheckLibBusinessHours]_vars

SpecEvent == InitEvent /\ [][CheckEventTime]_vars

SpecWebsite == InitWebsite /\ [][CheckWebsiteUrls]_vars

SpecProhibited == InitProhibited /\ [][CheckProhibitedChanges]_vars

SpecReorder == InitReorder /\ [][NextFmt]_vars

SpecIssue == InitIssue /\ [][CheckAccountIssueDate]_vars

SpecSkip == InitSkip /\ [][NextSkip]_vars

SpecImport == InitImport /\ [][NextImport]_vars

SpecLog == InitLog /\ [][NextLog]_vars

-----------------------------------------------------------------------------
(* Claims about validate_csv_file. *)

CsvDone == csv_result.status \in {"ok", "error"}

\* A Shift-JIS buffer with valid rows whose bytes are not valid UTF-8.
IsShiftJisTable(content) ==
    /\ decode_strict(content, "shift-jis").ok
    /\ ~decode_strict(content, "utf-8").ok
    /\ csv_line_count(content) >= 2

\* Whether content is valid tabular text under encoding.
IsValidTable(content, encoding) ==
    /\ decode_strict(content, encoding).ok
    /\ csv_line_count(content) >= 2

\* C3: validate_csv_file returns the first encoding of the list under which
\* the buffer is valid tabular text; for a Shift-JIS buffer with valid rows
\* whose bytes are not valid UTF-8 the returned encoding is shift-jis.
C3_FirstValidEncoding ==
    CsvDone =>
        /\ \A k \in 1..Len(encodings) :
              (/\ IsValidTable(csv_buf, encodings[k])
               /\ \A j \in 1..(k - 1) : ~IsValidTable(csv_buf, encodings[j]))
              => (csv_result.status = "ok" /\ csv_result.encoding = encodings[k])
        /\ IsShiftJisTable(csv_buf) =>
              (csv_result.status = "ok" /\ csv_result.encoding = "shift-jis")

\* C26: for an upload of zero bytes, or of white space only,
\* validate_csv_file fails with the file-is-empty error and not with the
\* encoding-not-recognized error.
C26_EmptyUploadIsFileEmpty ==
    (CsvDone /\ IsBlankText(csv_buf)) =>
        (csv_result.status = "error" /\ csv_result.error = "file is empty")

-----------------------------------------------------------------------------
(* Claims about format_for_import and create_import_files. *)

FmtDone == fmt_out.status = "done"

FmtRowNumbers == 1..Len(fmt_in.main_data)

\* The baseline row that carries the slug of main row i, if there is one.
BaselineRowsOf(i) ==
    {k \in 1..Len(fmt_in.original_data) :
        /\ fmt_in.main_data[i].slug # ""
        /\ fmt_in.original_data[k].slug = fmt_in.main_data[i].slug}

\* Main row i differs from its baseline row in an account column and in no
\* other column.
AccountOnlyEdit(i) ==
    \E k \in BaselineRowsOf(i) :
        LET r == fmt_in.main_data[i]
            b == fmt_in.original_data[k]
        IN  /\ r.acct # b.acct
            /\ r.name = b.name
            /\ fmt_in.hp_column => r.hp = b.hp

NewStatusRows == {i \in FmtRowNumbers : fmt_out.formatted_data[i].status = "shinki"}

ModifiedStatusRows ==
    {i \in FmtRowNumbers :
        fmt_out.formatted_data[i].status \in {"shusei", "sakujo", "keisaijun"}}

AccountOnlyRows ==
    {i \in FmtRowNumbers :
        fmt_out.formatted_data[i].status = "shusei" /\ AccountOnlyEdit(i)}

\* C4: the new-circle file holds exactly the rows whose status is shinki,
\* the modified-circle file exactly the rows whose status is shusei, sakujo
\* or keisaijun less the shusei rows that are account-only edits; no row is
\* in both files, and a file without rows is left out of the file map.
C4_ImportFilePartition ==
    FmtDone =>
        LET files == fmt_out.import_files
        IN  /\ Range(files.new) = NewStatusRows
            /\ Range(files.modified) = ModifiedStatusRows \ AccountOnlyRows
            /\ Range(files.new) \cap Range(files.modified) = {}
            /\ ("new" \in files.names) <=> (NewStatusRows # {})
            /\ ("modified" \in files.names) <=> (ModifiedStatusRows \ AccountOnlyRows # {})

\* C4 witness: a shinki row is in the new-circle file while the only
\* candidate of the modified-circle file is an account-only shusei row, so
\* that file is left out.
C4_Witness ==
    /\ FmtDone
    /\ fmt_out.import_files.names \cap {"new", "modified"} = {"new"}
    /\ AccountOnlyRows # {}
    /\ NewStatusRows # {}

\* The status rule of the specification, on the status cell as entered and
\* the HP flag as written to the output.
SpecifiedStatus(status, hp) ==
    CASE status = "sakujo" -> "private"
      [] status = "" -> "publish"
      [] status \notin {"sakujo", ""} /\ hp = "1" -> "publish"
      [] status \notin {"sakujo", ""} /\ hp = "0" -> "private"
      [] OTHER -> "publish"

\* C5: every output row's publish status follows the first matching rule:
\* sakujo gives private; blank gives publish; otherwise HP flag 1 gives
\* publish; otherwise HP flag 0 gives private; otherwise publish.
C5_StatusDerivation ==
    FmtDone =>
        \A i \in FmtRowNumbers :
            fmt_out.formatted_data[i].st =
                SpecifiedStatus(fmt_in.main_data[i].status, fmt_out.formatted_data[i].hp)

\* C5 witness: a sakujo row with HP flag 1 came out private and a row with
\* blank status and HP flag 0 came out publish.
C5_Witness ==
    /\ FmtDone
    /\ \E i \in FmtRowNumbers :
          /\ fmt_in.main_data[i].status = "sakujo"
          /\ fmt_out.formatted_data[i].hp = "1"
          /\ fmt_out.formatted_data[i].st = "private"
    /\ \E i \in FmtRowNumbers :
          /\ fmt_in.main_data[i].status = ""
          /\ fmt_out.formatted_data[i].hp = "0"
          /\ fmt_out.formatted_data[i].st = "publish"

KeepsStatus(i) == fmt_in.main_data[i].status \in {"shusei", "sakujo", "shinki"}

\* The new position of row i is not the order its baseline row records.
PositionDiffers(i) ==
    \E k \in BaselineRowsOf(i) : fmt_in.original_data[k].order # PosText[i]

\* C6: the order column becomes 1..N by position; a row already marked
\* shusei, sakujo or shinki keeps its status; any other row whose slug is
\* in the baseline gets status keisaijun exactly when its new position
\* differs from the order the baseline records, and is left as it was
\* otherwise.
C6_ReorderDetection ==
    FmtDone =>
        \A i \in FmtRowNumbers :
            /\ fmt_out.formatted_data[i].order = i
            /\ KeepsStatus(i) =>
                  fmt_out.formatted_data[i].status = fmt_in.main_data[i].status
            /\ (~KeepsStatus(i) /\ BaselineRowsOf(i) # {}) =>
                  fmt_out.formatted_data[i].status =
                      IF PositionDiffers(i) THEN "keisaijun"
                      ELSE fmt_in.main_data[i].status

\* C6 witness: one blank-status row moved and became keisaijun, another
\* kept its place and stayed blank, and a shusei row that moved kept shusei.
C6_Witness ==
    /\ FmtDone
    /\ \E i \in FmtRowNumbers :
          /\ fmt_in.main_data[i].status = ""
          /\ PositionDiffers(i)
          /\ fmt_out.formatted_data[i].status = "keisaijun"
    /\ \E i \in FmtRowNumbers :
          \/ /\ fmt_in.main_data[i].status = ""
             /\ BaselineRowsOf(i) # {}
             /\ ~PositionDiffers(i)
             /\ fmt_out.formatted_data[i].status = ""
          \/ /\ fmt_in.main_data[i].status = "shusei"
             /\ PositionDiffers(i)
             /\ fmt_out.formatted_data[i].status = "shusei"

ReorderDone == fmt_out.status = "done" /\ "st" \in DOMAIN fmt_in.original_data[1]

\* The publication status the baseline holds for the circle of that slug.
BaselineStatus(slug) ==
    fmt_in.original_data[CHOOSE k \in 1..Len(fmt_in.original_data) :
                             fmt_in.original_data[k].slug = slug].st

\* C24: a row whose status cell the operator left blank and that got
\* keisaijun from the reorder detection alone is written to the
\* modified-circle file with the publication status of its baseline row; a
\* circle that is private in the baseline does not become publish.
C24_ReorderKeepsPublication ==
    ReorderDone =>
        \A k \in 1..Len(fmt_out.import_files.modified) :
            LET i == fmt_out.import_files.modified[k]
            IN  (/\ normalize_value(fmt_in.main_data[i].status) = ""
                 /\ fmt_out.formatted_data[i].status = "keisaijun")
                    => fmt_out.formatted_data[i].st = BaselineStatus(fmt_in.main_data[i].slug)

-----------------------------------------------------------------------------
(* Claims about create_user_import_data and create_modified_user_data. *)

UserReport == fmt_out.import_files.users

\* The largest number of a slug that may be allocated.
LastAllocatable == 9998

\* C7: every slug allocated to a new user is cs followed by four digits
\* whose number lies in 1..9998, whatever the user table holds.
C7_AllocatedSlugsInRange ==
    FmtDone =>
        \A k \in 1..Len(UserReport.new_users) :
            LET slug == UserReport.new_users[k].slug
            IN  /\ Len(slug) = 6
                /\ is_cs_slug(slug)
                /\ suffix_number(slug) \in 1..LastAllocatable

ExistingSlugs == {fmt_in.user_data[j].slug : j \in 1..Len(fmt_in.user_data)}

\* The numbers of the existing cs slugs that lie in 1..9998.
ExistingNumbers ==
    {n \in {suffix_number(slug) : slug \in {x \in ExistingSlugs : is_cs_slug(x)}} :
        n \in 1..LastAllocatable}

FirstNumber ==
    IF ExistingNumbers = {} THEN 1
    ELSE (CHOOSE m \in ExistingNumbers : \A n \in ExistingNumbers : n <= m) + 1

ErrorRows ==
    {UserReport.user_creation_errors[k].row :
        k \in 1..Len(UserReport.user_creation_errors)}

\* C8: the k-th new user, in row order of the candidates, gets the slug of
\* number FirstNumber + k - 1, where FirstNumber is 1 + the largest existing
\* cs number in 1..9998 (1 if there is none); every candidate is either
\* given a slug, rejected or skipped as already issued, and only the first
\* kind takes a number; with users cs0001, cs0003 and cs9999 the first new
\* slug is cs0004.
C8_SequentialAllocation ==
    FmtDone =>
        LET new_users == UserReport.new_users
            new_rows  == UserReport.new_rows
        IN  /\ Len(new_rows) = Len(new_users)
            /\ \A k \in 1..Len(new_users) :
                  new_users[k].slug = format_slug(FirstNumber + k - 1)
            /\ \A k \in 1..(Len(new_rows) - 1) : new_rows[k] < new_rows[k + 1]
            /\ Range(new_rows) \cap ErrorRows = {}
            /\ Range(new_rows) \cap Range(UserReport.already_issued_users) = {}
            /\ Range(new_rows) \cup ErrorRows \cup Range(UserReport.already_issued_users)
                  = Range(UserReport.filtered_new_accounts)
            /\ (ExistingSlugs = {Slug0001, Slug0003, Slug9999} /\ new_users # <<>>)
                  => new_users[1].slug = <<"c", "s", "0", "0", "0", "4">>

\* C8 witness: with users cs0001, cs0003 and cs9999, a candidate is
\* rejected, a later one gets cs0004 and a still later one cs0005.
C8_Witness ==
    /\ FmtDone
    /\ ExistingSlugs = {Slug0001, Slug0003, Slug9999}
    /\ Len(UserReport.new_users) = 2
    /\ UserReport.new_users[1].slug = <<"c", "s", "0", "0", "0", "4">>
    /\ UserReport.new_users[2].slug = <<"c", "s", "0", "0", "0", "5">>
    /\ \E e \in ErrorRows : e < UserReport.new_rows[1]

\* The user the representative cell of main row i refers to, if any.
RepresentativeOf(i) ==
    {j \in 1..Len(fmt_in.user_data) :
        fmt_in.user_data[j].slug = fmt_in.main_data[i].rep}

\* Main row i is in the modification sub-flow (its issue email differs from
\* the baseline and its representative is an existing user) and its new
\* issue email is held by another existing user.
EmailTakenByOther(i) ==
    LET row == fmt_in.main_data[i]
    IN  /\ \E k \in BaselineRowsOf(i) : fmt_in.original_data[k].acct[3] # row.acct[3]
        /\ RepresentativeOf(i) # {}
        /\ row.acct[3] # ""
        /\ \E j \in 1..Len(fmt_in.user_data) :
              /\ fmt_in.user_data[j].email = row.acct[3]
              /\ fmt_in.user_data[j].slug # row.rep

C21_NoEmailOfAnotherUser ==
    FmtDone =>
        /\ \A k \in 1..Len(UserReport.new_users) :
              \A j \in 1..Len(fmt_in.user_data) :
                  fmt_in.user_data[j].email # UserReport.new_users[k].email
        /\ \A k \in 1..Len(UserReport.modified_users_df) :
              \A j \in 1..Len(fmt_in.user_data) :
                  fmt_in.user_data[j].email = UserReport.modified_users_df[k].email
                      => fmt_in.user_data[j].slug = UserReport.modified_users_df[k].slug

\* What holds of the emails: a shinki row never yields a new user with an
\* email of an existing user, and an updated user never gets the email of
\* a user of another slug.
EmailsCheckedWhereTested ==
    FmtDone =>
        /\ \A k \in 1..Len(UserReport.new_users) :
              normalize_value(fmt_in.main_data[UserReport.new_rows[k]].status) = "shinki"
                  => \A j \in 1..Len(fmt_in.user_data) :
                        fmt_in.user_data[j].email # UserReport.new_users[k].email
        /\ \A k \in 1..Len(UserReport.modified_users_df) :
              \A j \in 1..Len(fmt_in.user_data) :
                  fmt_in.user_data[j].email = UserReport.modified_users_df[k].email
                      => fmt_in.user_data[j].slug = UserReport.modified_users_df[k].slug

\* C22: the slugs of the user-registration file are pairwise distinct, new
\* and updated rows alike, and no newly allocated slug is a slug of the
\* input user table.
C22_SlugsDistinct ==
    FmtDone =>
        /\ \A k, l \in 1..Len(UserReport.user_import_df) :
              k # l => UserReport.user_import_df[k].slug # UserReport.user_import_df[l].slug
        /\ \A k \in 1..Len(UserReport.new_users) :
              UserReport.new_users[k].slug \notin ExistingSlugs

\* The first half of C22 restricted to the new rows.
NewSlugsDistinct ==
    FmtDone =>
        \A k, l \in 1..Len(UserReport.new_users) :
            k # l => UserReport.new_users[k].slug # UserReport.new_users[l].slug

-----------------------------------------------------------------------------
(* Claims about validate_modification_status. *)

ChkDone == chk_out.status = "done" /\ chk_in.validation_options.modification_status

ChkRowNumbers == 1..Len(chk_in.main_data)

\* The baseline rows that carry the slug of main row i of the validation.
ChkBaselineRowsOf(i) ==
    {k \in 1..Len(chk_in.original_data) :
        /\ chk_in.main_data[i].slug # ""
        /\ chk_in.original_data[k].slug = chk_in.main_data[i].slug}

ChkBaselineRow(i) ==
    chk_in.original_data[CHOOSE k \in ChkBaselineRowsOf(i) :
                             \A j \in ChkBaselineRowsOf(i) : k <= j]

\* The findings in the error text of row i.
ChkFindings(i) == UNION Range(chk_out.errors[i])

\* A column other than the status and the account columns differs.
OtherColumnDiffers(i) ==
    LET r == chk_in.main_data[i]
        b == ChkBaselineRow(i)
    IN  \/ r.name # b.name
        \/ r.order # b.order
        \/ chk_in.hp_column /\ r.hp # b.hp

AccountColumnDiffers(i) == chk_in.main_data[i].acct # ChkBaselineRow(i).acct

AccountOnlyChange(i) == AccountColumnDiffers(i) /\ ~OtherColumnDiffers(i)

\* C9: a shusei row with a baseline row of its slug gets the fragment
\* "shusei, but no value was changed" exactly when no column outside the
\* status and account columns differs from the baseline and the row is no
\* account-only change; a row in which only account columns differ is not
\* flagged.
C9_UnchangedModifyFlag ==
    ChkDone =>
        \A i \in ChkRowNumbers :
            (chk_in.main_data[i].status = "shusei" /\ ChkBaselineRowsOf(i) # {}) =>
                /\ ("unchanged" \in ChkFindings(i))
                       <=> (~OtherColumnDiffers(i) /\ ~AccountOnlyChange(i))
                /\ AccountOnlyChange(i) => "unchanged" \notin ChkFindings(i)

\* C9 witness: one shusei row that differs from the baseline in account
\* columns only is not flagged, and another that differs nowhere is.
C9_Witness ==
    /\ ChkDone
    /\ \E i \in ChkRowNumbers :
          /\ chk_in.main_data[i].status = "shusei"
          /\ ChkBaselineRowsOf(i) # {}
          /\ AccountOnlyChange(i)
          /\ "unchanged" \notin ChkFindings(i)
    /\ \E i \in ChkRowNumbers :
          /\ chk_in.main_data[i].status = "shusei"
          /\ ChkBaselineRowsOf(i) # {}
          /\ ~OtherColumnDiffers(i)
          /\ ~AccountColumnDiffers(i)
          /\ "unchanged" \in ChkFindings(i)

-----------------------------------------------------------------------------
(* Claims about perform_data_validation. *)

RunDone == chk_out.status = "done" /\ "calls" \in DOMAIN chk_in

EngineOrder == validation_functions \o async_validation_functions

RunEnabled(key) ==
    key \in DOMAIN chk_in.validation_options /\ chk_in.validation_options[key]

\* What check key has to say about row i: nothing when it raises.
RunFragment(key, i) ==
    IF key \in chk_in.calls.raising THEN {}
    ELSE IF key = "modification_status"
    THEN modification_status_errors(chk_in.main_data[i], chk_in.original_data,
                                    chk_in.hp_column)
    ELSE IF key \in DOMAIN chk_in.calls.found THEN chk_in.calls.found[key][i]
    ELSE {}

\* The positions in EngineOrder of the enabled checks with a fragment for row i.
RunSpeaking(i) ==
    {k \in 1..Len(EngineOrder) :
        RunEnabled(EngineOrder[k]) /\ RunFragment(EngineOrder[k], i) # {}}

\* C12: every enabled check is executed, in the fixed order with the
\* asynchronous URL check last, whether or not an earlier one raised; a
\* raising check is reported as failed and contributes blank fragments; the
\* error text of a row is the join of the non-blank fragments of the enabled
\* checks, so it is blank exactly when none produced one; with no check
\* enabled every error text is blank and the warning is shown.
C12_RaisingCheckIsolated ==
    RunDone =>
        LET enabled == Indices(Len(EngineOrder),
                               {k \in 1..Len(EngineOrder) : RunEnabled(EngineOrder[k])})
        IN  /\ Len(chk_out.executed) = Len(enabled)
            /\ \A k \in 1..Len(enabled) :
                  /\ chk_out.executed[k].key = EngineOrder[enabled[k]]
                  /\ chk_out.executed[k].failed
                         <=> EngineOrder[enabled[k]] \in chk_in.calls.raising
            /\ \A i \in 1..Len(chk_in.main_data) :
                  LET speaking == Indices(Len(EngineOrder), RunSpeaking(i))
                  IN  /\ chk_out.errors[i] =
                             [j \in 1..Len(speaking) |->
                                 RunFragment(EngineOrder[speaking[j]], i)]
                      /\ chk_out.errors[i] = <<>> <=> RunSpeaking(i) = {}
            /\ chk_out.warning <=> enabled = <<>>
            /\ enabled = <<>> =>
                  \A i \in 1..Len(chk_in.main_data) : chk_out.errors[i] = <<>>

\* C12 witness: check #1 raises on a row it would flag, the later email and
\* URL checks still run, and the row's error text joins their two fragments.
C12_Witness ==
    /\ RunDone
    /\ RunEnabled("modification_status")
    /\ "modification_status" \in chk_in.calls.raising
    /\ \E i \in 1..Len(chk_in.main_data) :
          /\ chk_in.main_data[i].status = "other"
          /\ chk_out.errors[i] = <<{"email"}, {"website_urls"}>>
    /\ \E k \in 1..Len(chk_out.executed) :
          chk_out.executed[k].key = "website_urls" /\ ~chk_out.executed[k].failed

-----------------------------------------------------------------------------
(* Claims about the import page. *)

\* The last script run was a click on the start-validation button.
ValidationRun ==
    import_view.event = "start_validation" /\ import_view.all_data_ready

\* C11: when validation is started with every checkbox of the page ticked,
\* as they are by default, all 16 checks of the engine are executed, the
\* account issue date check (#13) among them.
C11_DefaultsRunAllChecks ==
    (ValidationRun /\ \A key \in DOMAIN import_page.checks : import_page.checks[key])
        => /\ Range(import_view.executed) = Range(EngineOrder)
           /\ "account_issue_date" \in Range(import_view.executed)

\* The cached validation result exists and has no row with an error text.
ValidatedClean ==
    /\ session_state.validation_completed
    /\ session_state.validated_data # {}
    /\ \A column \in session_state.validated_data :
          \A i \in 1..Len(column) : column[i] = <<>>

\* C13: the create button is offered, and generated files are listed, only
\* by a script run in which validation is completed and the cached result
\* has no row with an error text; and whenever import_data_created is true,
\* so is validation_completed.
C13_CreationNeedsCleanValidation ==
    /\ import_view.button_offered => ValidatedClean
    /\ import_view.files_listed # {} => ValidatedClean
    /\ session_state.import_data_created => session_state.validation_completed

\* C13 witness: import files were created and the page lists them.
C13_Witness ==
    /\ session_state.import_data_created
    /\ session_state.validation_completed
    /\ import_view.button_offered
    /\ import_view.files_listed # {}

\* The caches are as reset_import_session_state leaves them.
CachesCleared(ss) ==
    /\ ~ss.validation_completed
    /\ ~ss.import_data_created
    /\ ss.validated_data = {}
    /\ ss.formatted_data = {}
    /\ ss.import_files = {}

\* C14: in a script run caused by an upload, a slot whose file differs from
\* the checksum stored for that slot is reported changed, the new checksum
\* is stored in that slot, and the run leaves validation_completed and
\* import_data_created false and validated_data, formatted_data and
\* import_files absent; a slot whose file has the stored checksum is not
\* reported changed; the checksum of no other slot is touched; and a run in
\* which no slot changed leaves the caches as they were.
C14_UploadInvalidatesCaches ==
    [][import_view'.event = "upload" =>
          /\ \A slot \in DOMAIN ImportFiles :
                /\ slot \in import_view'.changed
                       <=> /\ import_page'[slot] # NoFile
                           /\ session_state.uploaded_files_hash[slot]
                                  # {md5(import_page'[slot].rows)}
                /\ session_state'.uploaded_files_hash[slot] =
                       IF slot \in import_view'.changed
                       THEN {md5(import_page'[slot].rows)}
                       ELSE session_state.uploaded_files_hash[slot]
          /\ import_view'.changed # {} => CachesCleared(session_state')
          /\ import_view'.changed = {} =>
                /\ session_state'.validation_completed = session_state.validation_completed
                /\ session_state'.import_data_created = session_state.import_data_created
                /\ session_state'.validated_data = session_state.validated_data
                /\ session_state'.formatted_data = session_state.formatted_data
                /\ session_state'.import_files = session_state.import_files]_vars

\* C14 witness: with all three files in place, a workbook of another
\* content was uploaded and the caches are gone, while the checksums of the
\* other two slots stayed.
C14_Witness ==
    /\ import_view.event = "upload"
    /\ import_view.changed = {"excel"}
    /\ import_view.all_data_ready
    /\ session_state.uploaded_files_hash.user = {md5(import_page.user.rows)}
    /\ session_state.uploaded_files_hash.facility = {md5(import_page.facility.rows)}
    /\ CachesCleared(session_state)

\* C15: whatever files a create-import-data run generated, an empty file
\* map included, the script run that follows the callback renders every
\* payload the callback stored and deletes it, so none stays stored.
C15_PayloadsRenderedOnce ==
    import_view.event = "create_import_data" => session_state.payloads = {}

\* C16: every successful validation run fires the celebratory effect, a
\* second one in the same session without any upload in between included.
C16_EffectPerSuccessfulValidation ==
    (ValidationRun /\ import_view.success) => import_view.balloons

\* C23: a validation result or a file map the page shows was computed from
\* the very tables the run has loaded: whatever changes the loaded tables,
\* the skip-rows input included, clears the caches before they are shown.
C23_CachesMatchLoadedTables ==
    /\ (import_view.success \/ import_view.error_table)
          => import_view.validated_from = import_view.loaded
    /\ (import_view.files_listed # {} \/ import_view.no_files_warning)
          => import_view.created_from = import_view.loaded

\* What holds of the caches: a run in which an uploaded file changed shows
\* no validation result and no file map.
UploadShowsNoCache ==
    import_view.changed # {} =>
        /\ ~import_view.success
        /\ ~import_view.error_table
        /\ import_view.files_listed = {}
        /\ ~import_view.no_files_warning

-----------------------------------------------------------------------------
(* Claims about the checks on single cells. *)

UrlDone == chk_out.status = "done" /\ "url" \in DOMAIN chk_in

\* C17: for the blank URL no request is sent and no diagnostic returned;
\* for a site that answers the GET request with 200 no diagnostic is
\* returned, and for one that answers it with 404 the diagnostic quotes
\* 404, whatever the OPTIONS request met and whatever headers the response
\* carries.
C17_UrlDiagnostics ==
    UrlDone =>
        /\ chk_in.url.rest = "" =>
              chk_out.result = [diagnostic |-> NoDiagnostic, requests |-> <<>>]
        /\ (chk_in.url.rest # "" /\ chk_in.get.kind = "response"
               /\ chk_in.get.status = 200)
              => chk_out.result.diagnostic = NoDiagnostic
        /\ (chk_in.url.rest # "" /\ chk_in.get.kind = "response"
               /\ chk_in.get.status = 404)
              => chk_out.result.diagnostic.status = 404

HoursDone == chk_out.status = "done" /\ "start_value" \in DOMAIN chk_in

\* The cell reads HH:MM or HH:MM:SS with the hour in 0..23 and the minute
\* and second in 0..59.
ParsesAsTime(cell) ==
    /\ Len(cell) \in {2, 3}
    /\ \A k \in 1..Len(cell) :
          cell[k] # <<>> /\ \A i \in 1..Len(cell[k]) : IsDigit(cell[k][i])
    /\ to_int(cell[1]) \in 0..23
    /\ \A k \in 2..Len(cell) : to_int(cell[k]) \in 0..59

\* The time of day a parsing cell names, in seconds.
SecondsOfDay(cell) ==
    to_int(cell[1]) * 3600 + to_int(cell[2]) * 60
        + (IF Len(cell) = 3 THEN to_int(cell[3]) ELSE 0)

\* C18: with both cells blank there is no finding; a non-blank cell that
\* does not parse as a time gives a format finding; when both cells parse,
\* there is a reversed-or-equal finding if the start is not before the end
\* and no finding if it is.
C18_BusinessHours ==
    HoursDone =>
        LET start == chk_in.start_value
            end   == chk_in.end_value
        IN  /\ (start = <<>> /\ end = <<>>) => chk_out.result = ""
            /\ ((start # <<>> /\ ~ParsesAsTime(start))
                   \/ (end # <<>> /\ ~ParsesAsTime(end)))
                  => chk_out.result \in {"start_format", "end_format", "start_end_format"}
            /\ (ParsesAsTime(start) /\ ParsesAsTime(end)) =>
                  IF SecondsOfDay(start) >= SecondsOfDay(end)
                  THEN chk_out.result = "reversed"
                  ELSE chk_out.result = ""

IssueDone == chk_out.status = "done" /\ "raw_value" \in DOMAIN chk_in

\* The text is digits, possibly between blanks.
IsNumeral(text) ==
    \E i, j \in 1..Len(text) :
        /\ i <= j
        /\ \A k \in 1..Len(text) :
              IF k < i \/ k > j THEN text[k] = " " ELSE IsDigit(text[k])

\* The numeral without its blanks.
NumeralValue(text) == to_int(SelectSeq(text, IsDigit))

\* R, a year from 1 to 50, a comma or a period, a month from 1 to 12.
IssueDateForm(text) ==
    /\ text # <<>>
    /\ text[1] = "R"
    /\ \E at \in 2..Len(text) :
          /\ text[at] \in {",", "."}
          /\ IsNumeral(SubSeq(text, 2, at - 1))
          /\ NumeralValue(SubSeq(text, 2, at - 1)) \in 1..50
          /\ IsNumeral(SubSeq(text, at + 1, Len(text)))
          /\ NumeralValue(SubSeq(text, at + 1, Len(text))) \in 1..12

\* C19: a blank account issue date is never flagged, and a non-blank one
\* is accepted exactly when it reads R<year><sep><month> with a comma or a
\* period as separator, the year in 1..50 and the month in 1..12.
C19_AccountIssueDate ==
    IssueDone =>
        LET value == strip(chk_in.raw_value)
        IN  IF value = <<>> THEN ~chk_out.result
            ELSE ~chk_out.result <=> IssueDateForm(value)

\* C19 witness: R6,4 and R50,12 are accepted, R0,1, R6,13, R51,1 and
\* 2024,4 are flagged; the state shown is the last of them.
C19_Witness ==
    /\ IssueDone
    /\ chk_in.raw_value = <<"2", "0", "2", "4", ",", "4">>
    /\ chk_out.result
    /\ ~validate_account_issue_date(<<"R", "6", ",", "4">>)
    /\ ~validate_account_issue_date(<<"R", "5", "0", ",", "1", "2">>)
    /\ validate_account_issue_date(<<"R", "0", ",", "1">>)
    /\ validate_account_issue_date(<<"R", "6", ",", "1", "3">>)
    /\ validate_account_issue_date(<<"R", "5", "1", ",", "1">>)

\* C28: for every non-blank URL and whatever the OPTIONS request met (an
\* exception, a timeout, any status), the GET request is sent after the
\* OPTIONS request and the diagnostic is the one the GET outcome gives,
\* that is the one returned when the OPTIONS request is answered with 200.
C28_PreflightNeverBlocksGet ==
    (UrlDone /\ chk_in.url.rest # "") =>
        /\ Len(chk_out.result.requests) >= 2
        /\ chk_out.result.requests[1] = "OPTIONS"
        /\ chk_out.result.requests[2] = "GET"
        /\ chk_out.result.diagnostic =
              is_url_alive(chk_in.url,
                           [kind |-> "response", status |-> 200, cors_origin |-> "absent"],
                           chk_in.get, chk_in.http_get).diagnostic

\* C29: the library's validate_business_hours returns no diagnostic when
\* both cells are blank; otherwise it returns no diagnostic exactly when
\* both cells parse as HH:MM or HH:MM:SS and the start is strictly earlier
\* than the end, also when both lie in the same hour.
C29_LibBusinessHours ==
    HoursDone =>
        LET start == chk_in.start_value
            end   == chk_in.end_value
        IN  IF start = <<>> /\ end = <<>> THEN chk_out.result = ""
            ELSE chk_out.result = "" <=>
                    /\ ParsesAsTime(start)
                    /\ ParsesAsTime(end)
                    /\ SecondsOfDay(start) < SecondsOfDay(end)

EventDone == chk_out.status = "done" /\ "event_day_range" \in DOMAIN chk_in

\* Both cells are timestamps of one accepted format.
EventParsed ==
    chk_in.start.format \in {"-", "/"} /\ chk_in.end.format = chk_in.start.format

\* Both days lie inside the caller's window.
EventInWindow ==
    /\ DateNumber(chk_in.start) >= DateNumber(chk_in.event_day_range[1])
    /\ DateNumber(chk_in.end) <= DateNumber(chk_in.event_day_range[2])

\* C30: when both timestamps lie in the window on different calendar dates
\* (day, month or year differ), event_time returns the same-day diagnostic,
\* for the '-' format as for the '/' format; it returns no diagnostic only
\* when both are in the window, on one calendar date, with start before end.
C30_EventSameDay ==
    (EventDone /\ EventParsed) =>
        /\ (EventInWindow /\ DateNumber(chk_in.start) # DateNumber(chk_in.end))
              => chk_out.result = "same_day"
        /\ chk_out.result = "" =>
              /\ EventInWindow
              /\ DateNumber(chk_in.start) = DateNumber(chk_in.end)
              /\ TimeNumber(chk_in.start) < TimeNumber(chk_in.end)

WebsiteDone == chk_out.status = "done" /\ "cells" \in DOMAIN chk_in

\* The URL of a non-blank Web-site cell: blanks and a leading '@' removed.
CellUrl(cell) == SelectSeq(cell, LAMBDA c : c \notin {" ", "@"})

\* C27: validate_website_urls probes each distinct non-blank Web-site
\* value once (rows sharing a URL share one probe), and returns one
\* fragment per row, at the row's position: blank for a blank cell, the
\* diagnostic of the row's URL otherwise.
C27_OneProbePerDistinctUrl ==
    (WebsiteDone /\ ~chk_in.session_fails) =>
        LET cells  == chk_in.cells
            filled == {i \in 1..Len(cells) : CellUrl(cells[i]) # <<>>}
        IN  /\ Len(chk_out.result.probes)
                  = Cardinality({CellUrl(cells[i]) : i \in filled})
            /\ Len(chk_out.result.errors) = Len(cells)
            /\ \A i \in 1..Len(cells) :
                  chk_out.result.errors[i] =
                      IF i \in filled THEN chk_in.answers[CellUrl(cells[i])] ELSE ""

\* The second half of C27 alone: one fragment per row at its position.
WebsiteFragmentsPlaced ==
    WebsiteDone =>
        /\ Len(chk_out.result.errors) = Len(chk_in.cells)
        /\ \A i \in 1..Len(chk_in.cells) :
              chk_out.result.errors[i] =
                  IF CellUrl(chk_in.cells[i]) # <<>> /\ ~chk_in.session_fails
                  THEN chk_in.answers[CellUrl(chk_in.cells[i])] ELSE ""

ProhibitedDone == chk_out.status = "done" /\ "sheet" \in DOMAIN chk_in

\* Row i of the sheet differs from its baseline record in a prohibited
\* column.
ProhibitedEdit(i) ==
    \E k \in 1..Len(prohibited_columns) :
        normalize_value(chk_in.sheet[i].row.cells[prohibited_columns[k]])
            # normalize_value(chk_in.original_data[chk_in.sheet[i].record]
                                  .cells[prohibited_columns[k]])

\* C25: every row whose status is not shinki and that differs from its
\* baseline record in one of the ten prohibited columns, the slug included,
\* is flagged by validate_prohibited_changes; so is a row whose slug was
\* edited to a value the baseline does not hold.
C25_ProhibitedChangesFlagged ==
    ProhibitedDone =>
        \A i \in 1..Len(chk_in.sheet) :
            (normalize_value(chk_in.sheet[i].row.status) # "shinki" /\ ProhibitedEdit(i))
                => chk_out.result[i] # <<>>

\* What holds of the check: a row that is not shinki and kept the slug of
\* its record is flagged exactly when another prohibited column differs.
ProhibitedFlaggedUnderKeptSlug ==
    ProhibitedDone =>
        \A i \in 1..Len(chk_in.sheet) :
            (/\ normalize_value(chk_in.sheet[i].row.status) # "shinki"
             /\ chk_in.sheet[i].row.cells["slug"]
                   = chk_in.original_data[chk_in.sheet[i].record].cells["slug"])
                => (chk_out.result[i] # <<>> <=> ProhibitedEdit(i))

-----------------------------------------------------------------------------
(* Claims about the action log. *)

\* The calls of log_session_state_change since the log was last cleared.
CallsLogged == log_clock.now - log_clock.cleared

\* C20: the log never holds more than 50 entries, and they are the entries
\* of the most recent calls, in call order: all of them while there were at
\* most 50, the last 50 otherwise.
C20_LogKeepsLast50 ==
    /\ Len(session_log) <= 50
    /\ Len(session_log) = IF CallsLogged <= 50 THEN CallsLogged ELSE 50
    /\ \A k \in 1..Len(session_log) :
          session_log[k].timestamp = log_clock.now - Len(session_log) + k

\* C20 witness: more than 50 calls were logged and the oldest entries are gone.
C20_Witness ==
    /\ CallsLogged > 50
    /\ Len(session_log) = 50
    /\ session_log[1].timestamp = log_clock.now - 49
    /\ session_log[50].timestamp = log_clock.now

-----------------------------------------------------------------------------
(* Claims about the workbook-creation page. *)

HasRepeat(col) == \E i, j \in 1..Len(col) : i # j /\ col[i] = col[j]

NonBlankCells(col) == {c \in Range(col) : c # ""}

BothTablesLoaded == page.circle_data.bound /\ page.last_month_data.bound

SlugsInconsistent ==
    \/ HasRepeat(page.circle_data.rows)
    \/ HasRepeat(page.last_month_data.rows)
    \/ NonBlankCells(page.circle_data.rows) # NonBlankCells(page.last_month_data.rows)

\* C1: on the creation page, when the circle table or the prior-month table
\* repeats a slug, or their non-blank slug sets differ, the run is halted by
\* check_data_consistency with one report that lists the circle-only and the
\* baseline-only slugs separately; the process button is not rendered,
\* process_files is not invoked and no workbook is produced.
C1_ConsistencyGateHalts ==
    (BothTablesLoaded /\ SlugsInconsistent) =>
        /\ page.consistency_run
        /\ page.stopped
        /\ page.report.only_in_circle =
               NonBlankCells(page.circle_data.rows) \ NonBlankCells(page.last_month_data.rows)
        /\ page.report.only_in_last_month =
               NonBlankCells(page.last_month_data.rows) \ NonBlankCells(page.circle_data.rows)
        /\ ~page.button_offered
        /\ ~page.process_invoked
        /\ page.output = "none"

\* C1 witness: all three files are uploaded, the circle table has a slug the
\* baseline lacks and the baseline has one the circle table lacks, and the
\* run was halted with both listed.
C1_Witness ==
    /\ page.facility_data.bound
    /\ page.stopped
    /\ page.report.only_in_circle = {"A"}
    /\ page.report.only_in_last_month = {"B"}

\* C2: facility ingestion fails whenever the facility-name column holds a
\* blank or a repeated value, and succeeds only when it holds neither.
C2_FacilityIngestionRejectsBadNames ==
    page.facility_data.bound => validate_facility_data(page.facility_data.rows).ok

====
